---- MODULE Spec2Model ----
(***************************************************************************)
(* Model of the log analysis tools of MCP-TOOLS.                           *)
(*                                                                         *)
(*   src/src/tools/log_analyzer_tool.py                                    *)
(*       LogAnalyzer.analyze_logs and the helpers it calls                 *)
(*   src/packages/log_analyzer/src/mcp_services/log_analyzer/tool.py       *)
(*       LogAnalyzer._analyze_error_logs and the helpers it calls          *)
(*                                                                         *)
(* Python strings are TLA+ strings, handled character by character.        *)
(* Python's re module is modelled by a backtracking matcher over regular   *)
(* expression syntax trees, so that every pattern of the source is written *)
(* down as the pattern it is.  The source's Chinese labels are written as  *)
(* ASCII glosses, since a TLA+ string holds ASCII only.                    *)
(***************************************************************************)
EXTENDS Integers, Sequences, FiniteSets, TLC

(***************************************************************************)
(* Python str.  The operators go over a string's positions with bounded    *)
(* quantifiers; positions are 1-based.                                     *)
(***************************************************************************)

Char(s, i) == SubSeq(s, i, i)

WhiteSpace == {" ", "\t", "\n", "\r", "\f"}

Digits == {"0", "1", "2", "3", "4", "5", "6", "7", "8", "9"}

LowerOfUpper ==
    [A |-> "a", B |-> "b", C |-> "c", D |-> "d", E |-> "e", F |-> "f",
     G |-> "g", H |-> "h", I |-> "i", J |-> "j", K |-> "k", L |-> "l",
     M |-> "m", N |-> "n", O |-> "o", P |-> "p", Q |-> "q", R |-> "r",
     S |-> "s", T |-> "t", U |-> "u", V |-> "v", W |-> "w", X |-> "x",
     Y |-> "y", Z |-> "z"]

UpperLetters == DOMAIN LowerOfUpper

LowerLetters == {LowerOfUpper[c] : c \in UpperLetters}

WordChars == UpperLetters \cup LowerLetters \cup Digits \cup {"_"}

\* c.lower()
LowerChar(c) == IF c \in UpperLetters THEN LowerOfUpper[c] ELSE c

\* the least position in from..to at which Test holds, to + 1 if there is none
FirstAt(from, to, Test(_)) ==
    CHOOSE j \in from..(to + 1) :
        /\ j = to + 1 \/ Test(j)
        /\ \A k \in from..(j - 1) : ~Test(k)

\* the greatest position in from..to at which Test holds, from - 1 if none
LastAt(from, to, Test(_)) ==
    CHOOSE j \in (from - 1)..to :
        /\ j = from - 1 \/ Test(j)
        /\ \A k \in (j + 1)..to : ~Test(k)

\* In(v), v computed once
Let(v, In(_)) == CHOOSE r \in {In(x) : x \in {v}} : TRUE

Min(a, b) == IF a <= b THEN a ELSE b

\* seq[:n]
Take(seq, n) == SubSeq(seq, 1, Min(n, Len(seq)))

\* s[:n] for n >= 0
Prefix(s, n) == IF n >= Len(s) THEN s ELSE SubSeq(s, 1, n)

\* s[i-1:]
From(s, i) == IF i > Len(s) THEN "" ELSE SubSeq(s, i, Len(s))

\* s.startswith(p, i - 1)
StartsWithAt(s, p, i) ==
    /\ i + Len(p) - 1 <= Len(s)
    /\ SubSeq(s, i, i + Len(p) - 1) = p

\* s.lower().startswith(p.lower(), i - 1)
StartsWithAtCI(s, p, i) ==
    /\ i + Len(p) - 1 <= Len(s)
    /\ \A k \in 1..Len(p) : LowerChar(Char(s, i + k - 1)) = LowerChar(Char(p, k))

StartsWith(s, p) == StartsWithAt(s, p, 1)

\* p in s
Contains(s, p) == \E i \in 1..(Len(s) - Len(p) + 1) : StartsWithAt(s, p, i)

\* p.lower() in s.lower()
ContainsCI(s, p) == \E i \in 1..(Len(s) - Len(p) + 1) : StartsWithAtCI(s, p, i)

\* s.find(p) + 1: the position of the first occurrence of p in s, 0 if none
Find(s, p) ==
    LET at == FirstAt(1, Len(s), LAMBDA i : StartsWithAt(s, p, i)) IN
    IF at > Len(s) THEN 0 ELSE at

\* s.strip()
Strip(s) ==
    LET first == FirstAt(1, Len(s), LAMBDA i : Char(s, i) \notin WhiteSpace)
        last == LastAt(1, Len(s), LAMBDA i : Char(s, i) \notin WhiteSpace)
    IN IF first > last THEN "" ELSE SubSeq(s, first, last)

\* s.split(sep) for a non-empty separator: the pieces between the
\* occurrences of sep, empty pieces included
RECURSIVE Split(_, _)
Split(s, sep) ==
    LET at == Find(s, sep) IN
    IF at = 0 THEN <<s>>
    ELSE <<SubSeq(s, 1, at - 1)>> \o Split(From(s, at + Len(sep)), sep)

\* sep.join(parts)
RECURSIVE Join(_, _)
Join(parts, sep) ==
    IF Len(parts) = 0 THEN ""
    ELSE IF Len(parts) = 1 THEN parts[1]
    ELSE parts[1] \o sep \o Join(Tail(parts), sep)

(***************************************************************************)
(* Python re.  A pattern is a sequence of nodes, matched left to right;    *)
(* where the re module backtracks, the matcher takes, among the choices    *)
(* that let the rest of the pattern match, the one re tries first: the     *)
(* first alternative, the longest greedy repetition, the shortest lazy     *)
(* repetition, the leftmost start.                                         *)
(***************************************************************************)

\* a literal text
Lit(str) == [t |-> "lit", s |-> str]

\* c{n}
Times(c, n) == [t |-> "run", c |-> c, min |-> n, max |-> n, lazy |-> FALSE]

\* c*  c+  c*?  c+?   for a character class c
Many(c) == [t |-> "run", c |-> c, min |-> 0, max |-> -1, lazy |-> FALSE]

Some(c) == [t |-> "run", c |-> c, min |-> 1, max |-> -1, lazy |-> FALSE]

LazyMany(c) == [t |-> "run", c |-> c, min |-> 0, max |-> -1, lazy |-> TRUE]

LazySome(c) == [t |-> "run", c |-> c, min |-> 1, max |-> -1, lazy |-> TRUE]

\* a|b|...: alts the alternatives, in order
Alt(alts) == [t |-> "alt", alts |-> alts]

\* (?:x)?
Opt(x) == Alt(<<x, <<>>>>)

\* (?:x)*
Star(x) == [t |-> "star", x |-> x]

Open(g) == [t |-> "open", g |-> g]

Close(g) == [t |-> "close", g |-> g]

\* (x), the g-th group
Group(g, x) == <<Open(g)>> \o x \o <<Close(g)>>

\* ^
Bol == [t |-> "bol"]

\* $
Eol == [t |-> "eol"]

\* \w \s \S \d . [^:] [^\]] and a character outside ASCII
InClass(name, c) ==
    CASE name = "w" -> c \in WordChars
      [] name = "s" -> c \in WhiteSpace
      [] name = "S" -> c \notin WhiteSpace
      [] name = "d" -> c \in Digits
      [] name = "." -> c # "\n"
      [] name = "^:" -> c # ":"
      [] name = "^]" -> c # "]"
      [] name = "nonascii" -> FALSE

NoGroups == [g \in 1..6 |-> <<0, 0>>]

\* one way the backtracking of re matches: key the choices it made, one
\* number per choice and the choice tried first the least; e the position
\* after the match; caps the groups' <<first, after>> positions
Way(key, e, caps) == [key |-> key, e |-> e, caps |-> caps]

\* the way after is the continuation of the way before
Extend(before, after) == Way(before.key \o after.key, after.e, after.caps)

\* the greatest position a c-run node n at position i can end at
RunMost(s, n, i) ==
    Min(IF n.max >= 0 THEN i + n.max ELSE Len(s) + 1,
        FirstAt(i, Len(s), LAMBDA j : ~InClass(n.c, Char(s, j))))

\* every way the nodes k match at position i of s.  ci is re.IGNORECASE.
RECURSIVE Matches(_, _, _, _, _)
RECURSIVE OneNode(_, _, _, _, _)
Matches(s, ci, k, i, caps) ==
    IF Len(k) = 0 THEN {Way(<<>>, i, caps)}
    ELSE IF Len(k) = 1 THEN OneNode(s, ci, k[1], i, caps)
    ELSE UNION {{Extend(before, after) :
                    after \in Matches(s, ci, SubSeq(k, Len(k) \div 2 + 1, Len(k)),
                                      before.e, before.caps)} :
                before \in Matches(s, ci, SubSeq(k, 1, Len(k) \div 2), i, caps)}

OneNode(s, ci, n, i, caps) ==
    CASE n.t = "lit" ->
           IF IF ci THEN StartsWithAtCI(s, n.s, i) ELSE StartsWithAt(s, n.s, i)
           THEN {Way(<<>>, i + Len(n.s), caps)}
           ELSE {}
      [] n.t = "run" ->
           \* the longest first, the shortest first when lazy
           {Way(<<IF n.lazy THEN e - i ELSE RunMost(s, n, i) - e>>, e, caps) :
               e \in (i + n.min)..RunMost(s, n, i)}
      [] n.t = "alt" ->
           UNION {{Extend(Way(<<a>>, i, caps), after) :
                      after \in Matches(s, ci, n.alts[a], i, caps)} :
                  a \in 1..Len(n.alts)}
      [] n.t = "star" ->
           \* once more first, then no more
           UNION {{Extend(Way(<<0>> \o once.key, i, caps), after) :
                      after \in Matches(s, ci, <<n>>, once.e, once.caps)} :
                  once \in {w \in Matches(s, ci, n.x, i, caps) : w.e > i}}
           \cup {Way(<<1>>, i, caps)}
      [] n.t = "open" ->
           {Way(<<>>, i, [caps EXCEPT ![n.g] = <<i, i>>])}
      [] n.t = "close" ->
           {Way(<<>>, i, [caps EXCEPT ![n.g] = <<caps[n.g][1], i>>])}
      [] n.t = "bol" ->
           IF i = 1 THEN {Way(<<>>, i, caps)} ELSE {}
      [] n.t = "eol" ->
           IF \/ i = Len(s) + 1
              \/ i = Len(s) /\ Char(s, i) = "\n"
           THEN {Way(<<>>, i, caps)}
           ELSE {}

\* the choices p are tried before the choices q
TriedBefore(p, q) ==
    \E d \in 1..Min(Len(p), Len(q)) :
        /\ p[d] < q[d]
        /\ \A c \in 1..(d - 1) : p[c] = q[c]

\* the way tried first
FirstWay(ways) ==
    CHOOSE m \in ways : \A o \in ways : ~TriedBefore(o.key, m.key)

\* the match of k that starts at position b, ways the ways k matches there
MatchOf(b, first) == [b |-> b, e |-> first.e, caps |-> first.caps]

\* re.match(k, s): <<>> or <<[b, e, caps]>>
ReMatch(k, s, ci) ==
    LET ways == Matches(s, ci, k, 1, NoGroups) IN
    IF ways = {} THEN <<>> ELSE <<MatchOf(1, FirstWay(ways))>>

\* the least position of s at which k matches, Len(s) + 2 when none
SearchStart(k, s, ci) ==
    FirstAt(1, Len(s) + 1, LAMBDA i : Matches(s, ci, k, i, NoGroups) # {})

\* re.search(k, s): the leftmost match
ReSearch(k, s, ci) ==
    LET b == SearchStart(k, s, ci) IN
    IF b > Len(s) + 1 THEN <<>>
    ELSE <<MatchOf(b, FirstWay(Matches(s, ci, k, b, NoGroups)))>>

\* match.group(g); group 0 is the whole match
GroupText(s, m, g) ==
    IF g = 0 THEN SubSeq(s, m.b, m.e - 1)
    ELSE SubSeq(s, m.caps[g][1], m.caps[g][2] - 1)

(***************************************************************************)
(* The patterns of the source                                              *)
(***************************************************************************)

\* a character of the source's patterns outside ASCII: no character of a
\* model string is one
NonAscii == Times("nonascii", 1)

\* (?:\s+at\s+|\s*$)
UpToStack == <<Alt(<< <<Some("s"), Lit("at"), Some("s")>>, <<Many("s"), Eol>> >>)>>

\* (\w+Exception|\w+Error)(?:\s*:\s*|\s+)(.+?)(?:\s+at\s+|\s*$)
ExceptionPattern ==
    Group(1, <<Alt(<< <<Some("w"), Lit("Exception")>>, <<Some("w"), Lit("Error")>> >>)>>)
    \o <<Alt(<< <<Many("s"), Lit(":"), Many("s")>>, <<Some("s")>> >>)>>
    \o Group(2, <<LazySome(".")>>)
    \o UpToStack

\* Error:\s*(.+?)(?:\s+at\s+|\s*$)
ErrorColonPattern ==
    <<Lit("Error:"), Many("s")>> \o Group(1, <<LazySome(".")>>) \o UpToStack

\* Failed\s+to\s+(.+?)(?:\s+at\s+|\s*$)
FailedToPattern ==
    <<Lit("Failed"), Some("s"), Lit("to"), Some("s")>>
    \o Group(1, <<LazySome(".")>>) \o UpToStack

\* denied|refused|rejected
DeniedPattern ==
    <<Alt(<< <<Lit("denied")>>, <<Lit("refused")>>, <<Lit("rejected")>> >>)>>

\* timeout|timed out
TimeoutPattern == <<Alt(<< <<Lit("timeout")>>, <<Lit("timed out")>> >>)>>

\* ^\d{4}-\d{2}-\d{2}\s+\d{2}:\d{2}:\d{2}\.\d{3}\s+\w+\s+\d+\s+[^\s]+\s+[^\s]+\s+---\s+\[[^\]]+\]\s+[^\s]+\s*:\s*
PrefixPattern ==
    <<Bol, Times("d", 4), Lit("-"), Times("d", 2), Lit("-"), Times("d", 2),
      Some("s"),
      Times("d", 2), Lit(":"), Times("d", 2), Lit(":"), Times("d", 2),
      Lit("."), Times("d", 3),
      Some("s"), Some("w"),
      Some("s"), Some("d"),
      Some("s"), Some("S"),
      Some("s"), Some("S"),
      Some("s"), Lit("---"),
      Some("s"), Lit("["), Some("^]"), Lit("]"),
      Some("s"), Some("S"),
      Many("s"), Lit(":"), Many("s")>>

\* (Exception|Error|Failed|Timeout|denied)[^:]*:?\s*(.+?)(?:\s+at\s+|\s*$)
KeywordPattern ==
    Group(1, <<Alt(<< <<Lit("Exception")>>, <<Lit("Error")>>, <<Lit("Failed")>>,
                      <<Lit("Timeout")>>, <<Lit("denied")>> >>)>>)
    \o <<Many("^:"), Opt(<<Lit(":")>>), Many("s")>>
    \o Group(2, <<LazySome(".")>>)
    \o UpToStack

\* ^\s*$   DEBUG\s+.*   INFO\s+.*<startup>   INFO\s+.*<shutdown>
\* INFO\s+.*<connection>: the last three end in a Chinese word of two
\* characters
irrelevant_patterns ==
    << <<Bol, Many("s"), Eol>>,
       <<Lit("DEBUG"), Some("s"), Many(".")>>,
       <<Lit("INFO"), Some("s"), Many("."), NonAscii, NonAscii>>,
       <<Lit("INFO"), Some("s"), Many("."), NonAscii, NonAscii>>,
       <<Lit("INFO"), Some("s"), Many("."), NonAscii, NonAscii>> >>

\* (\d{4}-\d{2}-\d{2} \d{2}:\d{2}:\d{2}\.\d{3})\s+(\w+)\s+\S+\s+app_id:(\S+)\s+---\s+\[(.*?)\]\s+(.+?)\s+:\s+(.*)
log_pattern ==
    Group(1, <<Times("d", 4), Lit("-"), Times("d", 2), Lit("-"), Times("d", 2),
               Lit(" "),
               Times("d", 2), Lit(":"), Times("d", 2), Lit(":"), Times("d", 2),
               Lit("."), Times("d", 3)>>)
    \o <<Some("s")>> \o Group(2, <<Some("w")>>)
    \o <<Some("s"), Some("S")>>
    \o <<Some("s"), Lit("app_id:")>> \o Group(3, <<Some("S")>>)
    \o <<Some("s"), Lit("---")>>
    \o <<Some("s"), Lit("[")>> \o Group(4, <<LazyMany(".")>>) \o <<Lit("]")>>
    \o <<Some("s")>> \o Group(5, <<LazySome(".")>>)
    \o <<Some("s"), Lit(":")>>
    \o <<Some("s")>> \o Group(6, <<Many(".")>>)

\* (\w+(?:\.\w+)*(?:Exception|Error)):?\s*(.*)
ErrorTypePattern ==
    Group(1, <<Some("w"), Star(<<Lit("."), Some("w")>>),
               Alt(<< <<Lit("Exception")>>, <<Lit("Error")>> >>)>>)
    \o <<Opt(<<Lit(":")>>), Many("s")>>
    \o Group(2, <<Many(".")>>)

(***************************************************************************)
(* src/src/tools/log_analyzer_tool.py: class LogAnalyzer.  An operator     *)
(* takes the fields of self it reads as parameters.                        *)
(***************************************************************************)

\* Python's None; no string of the model is this text
None == "<None>"

\* bool(v) of an Optional[str]
Truthy(v) == v # None /\ v # ""

framework_packages ==
    <<"java.", "javax.", "sun.", "com.sun.",
      "org.springframework.", "org.apache.", "org.hibernate.",
      "ch.qos.logback.", "org.slf4j.", "com.zaxxer.",
      "com.alibaba.", "io.netty.", "reactor.",
      "org.mybatis.", "com.baomidou.", "com.mysql.",
      "oracle.", "com.microsoft.", "com.ibm.">>

\* how many frames _filter_stack_trace keeps: filtered_lines[:3]
MaxFrames == 3

\* a variant of filtered_lines: the package hint is not read
filtered_lines_NoHint(stack_trace, app_package) ==
    LET lines == Split(stack_trace, "\n")
        stripped == [i \in 1..Len(lines) |-> Strip(lines[i])]
        Kept(line) ==
            /\ line # "" /\ StartsWith(line, "at ")
            /\ ~\E p \in 1..Len(framework_packages) :
                   StartsWith(line, "at " \o framework_packages[p])
    IN SelectSeq(stripped, Kept)

\* for line in lines: ... filtered_lines.append(line)
filtered_lines(stack_trace, app_package) ==
    LET lines == Split(stack_trace, "\n")
        stripped == [i \in 1..Len(lines) |-> Strip(lines[i])]
        is_app_package(line) ==
            IF Truthy(app_package)
            THEN Contains(line, app_package)
            ELSE ~\E p \in 1..Len(framework_packages) :
                     StartsWith(line, "at " \o framework_packages[p])
        Kept(line) == line # "" /\ StartsWith(line, "at ") /\ is_app_package(line)
    IN SelectSeq(stripped, Kept)

\* a variant of _filter_stack_trace: every kept frame returned
_filter_stack_trace_NoCap(stack_trace, app_package) ==
    IF stack_trace = "" THEN ""
    ELSE Join(filtered_lines(stack_trace, app_package), "\n")

\* LogAnalyzer._filter_stack_trace
_filter_stack_trace(stack_trace, app_package) ==
    IF stack_trace = "" THEN ""
    ELSE LET kept == filtered_lines(stack_trace, app_package) IN
         IF Len(kept) > 0 THEN Join(Take(kept, MaxFrames), "\n") ELSE ""

\* a variant of Truncate: the marker appended whatever the length
Truncate_Always(cleaned, max_length) ==
    Prefix(cleaned, max_length) \o "..."

\* cleaned[:max_length] + "..." when len(cleaned) > max_length
Truncate(cleaned, max_length) ==
    IF Len(cleaned) > max_length
    THEN Prefix(cleaned, max_length) \o "..."
    ELSE cleaned

\* cleaned = re.sub(prefix, '', log_line), prefix the match of the pattern
WithoutPrefix(log_line, prefix) ==
    IF Len(prefix) > 0 THEN From(log_line, prefix[1].e) ELSE log_line

\* if not cleaned.strip(): cleaned = log_line
OrOriginal(cleaned, log_line) ==
    IF Strip(cleaned) = "" THEN log_line ELSE cleaned

\* if exception_match: cleaned = exception_match.group(0).strip()
FromKeyword(cleaned, exception_match) ==
    IF Len(exception_match) > 0
    THEN Strip(GroupText(cleaned, exception_match[1], 0))
    ELSE cleaned

\* cleaned = exception_part + " " + filtered_stack, or exception_part alone
WithStack(exception_part, filtered_stack) ==
    IF filtered_stack # ""
    THEN exception_part \o " " \o filtered_stack
    ELSE exception_part

\* if 'at ' in cleaned: parts = cleaned.split('at ') ...
FilterStack(cleaned, app_package) ==
    IF Contains(cleaned, "at ")
    THEN WithStack(Strip(Split(cleaned, "at ")[1]),
                   _filter_stack_trace(
                       "at " \o Join(Tail(Split(cleaned, "at ")), "at "),
                       app_package))
    ELSE cleaned

\* the line without the timestamp, level, PID and thread it starts with
AfterPrefix(log_line) ==
    OrOriginal(WithoutPrefix(log_line, ReSearch(PrefixPattern, log_line, FALSE)),
               log_line)

\* the line from its first exception keyword on
AfterKeyword(cleaned) ==
    FromKeyword(cleaned, ReSearch(KeywordPattern, cleaned, TRUE))

\* LogAnalyzer._extract_key_info, up to the length limit: the text that is
\* then cut to max_length
CleanedKeyInfo(log_line, app_package) ==
    FilterStack(AfterKeyword(AfterPrefix(log_line)), app_package)

\* LogAnalyzer._extract_key_info
_extract_key_info(log_line, max_length, app_package) ==
    IF log_line = "" THEN ""
    ELSE Strip(Truncate(CleanedKeyInfo(log_line, app_package), max_length))

critical_keywords ==
    <<"outofmemory", "stackoverflow", "outofmemoryerror", "stackoverflowerror">>

high_keywords ==
    <<"nullpointer", "indexoutofbounds", "classnotfound", "methodnotfound",
      "nosuchelement", "illegalstate">>

\* any(keyword in exception_type.lower() for keyword in keywords)
AnyKeyword(exception_type, keywords) ==
    \E k \in 1..Len(keywords) : ContainsCI(exception_type, keywords[k])

\* a variant of _infer_severity: a fourth value for the types with no keyword
_infer_severity_Low(exception_type) ==
    IF AnyKeyword(exception_type, critical_keywords) THEN "critical"
    ELSE IF AnyKeyword(exception_type, high_keywords) THEN "high"
    ELSE "low"

\* LogAnalyzer._infer_severity
_infer_severity(exception_type) ==
    IF AnyKeyword(exception_type, critical_keywords) THEN "critical"
    ELSE IF AnyKeyword(exception_type, high_keywords) THEN "high"
    ELSE "medium"

\* how much of the exception message is kept: group(2).strip()[:100]
MaxMessage == 100

\* the max_length _extract_exception_info asks _extract_key_info for
KeyInfoLength == 200

\* the (pattern, error_type, default_severity) list of
\* _extract_exception_info; the labels are Chinese in the source ("error",
\* "operation failed", "access denied", "timeout"), and src is the
\* pattern's text
error_patterns ==
    <<[re |-> ErrorColonPattern, src |-> "Error:\\s*(.+?)(?:\\s+at\\s+|\\s*$)",
       error_type |-> "error", default_severity |-> "high", groups |-> 1],
      [re |-> FailedToPattern, src |-> "Failed\\s+to\\s+(.+?)(?:\\s+at\\s+|\\s*$)",
       error_type |-> "operation failed", default_severity |-> "medium", groups |-> 1],
      [re |-> DeniedPattern, src |-> "denied|refused|rejected",
       error_type |-> "access denied", default_severity |-> "medium", groups |-> 0],
      [re |-> TimeoutPattern, src |-> "timeout|timed out",
       error_type |-> "timeout", default_severity |-> "medium", groups |-> 0]>>

\* the dict returned when the exception pattern matches
FromException(key_info, exception_type, exception_message) ==
    <<[key_info |-> key_info,
       exception_type |-> exception_type,
       exception_message |-> exception_message,
       severity |-> _infer_severity(exception_type),
       pattern |-> exception_type]>>

\* the dict returned when the entry of error_patterns matches
FromErrorPattern(key_info, log_line, entry, match) ==
    <<[key_info |-> key_info,
       exception_type |-> entry.error_type,
       exception_message |->
           IF entry.groups > 0 THEN GroupText(log_line, match[1], 1) ELSE "",
       severity |-> entry.default_severity,
       pattern |-> entry.src]>>

\* for pattern, error_type, default_severity in error_patterns: the first
\* entry that matches, Len(error_patterns) + 1 when none does
FirstErrorPattern(log_line) ==
    FirstAt(1, Len(error_patterns),
            LAMBDA p : Len(ReSearch(error_patterns[p].re, log_line, TRUE)) > 0)

OtherError(key_info, log_line, first) ==
    IF first > Len(error_patterns) THEN <<>>
    ELSE FromErrorPattern(key_info, log_line, error_patterns[first],
                          ReSearch(error_patterns[first].re, log_line, TRUE))

ExceptionOrOther(key_info, log_line, exception_match) ==
    IF Len(exception_match) > 0
    THEN FromException(key_info,
                       GroupText(log_line, exception_match[1], 1),
                       Prefix(Strip(GroupText(log_line, exception_match[1], 2)),
                              MaxMessage))
    ELSE OtherError(key_info, log_line, FirstErrorPattern(log_line))

\* LogAnalyzer._extract_exception_info: <<>> for None, else <<the dict>>
_extract_exception_info(log_line, app_package) ==
    IF log_line = "" THEN <<>>
    ELSE ExceptionOrOther(_extract_key_info(log_line, KeyInfoLength, app_package),
                          log_line,
                          ReSearch(ExceptionPattern, log_line, TRUE))

\* the least length of a stripped line _is_relevant_log_line keeps
MinRelevant == 10

\* LogAnalyzer._is_relevant_log_line
_is_relevant_log_line(line) ==
    IF line = "" \/ Len(Strip(line)) < MinRelevant THEN FALSE
    ELSE ~\E p \in 1..Len(irrelevant_patterns) :
             Len(ReMatch(irrelevant_patterns[p], line, TRUE)) > 0

\* the key of defects.sort: {"critical": 0, "high": 1, "medium": 2}.get(s, 3)
severity_rank(severity) ==
    CASE severity = "critical" -> 0
      [] severity = "high" -> 1
      [] severity = "medium" -> 2
      [] OTHER -> 3

\* a variant of SortBySeverity: the list left as it was
SortBySeverity_Unsorted(defects) == defects

\* a variant of SortBySeverity: sorted, the defects of one rank in the
\* reverse of the order they had
SortBySeverity_Unstable(defects) ==
    Let([k \in 1..Len(defects) |-> defects[Len(defects) + 1 - k]],
        LAMBDA reversed :
            SelectSeq(reversed, LAMBDA d : severity_rank(d.severity) = 0)
            \o SelectSeq(reversed, LAMBDA d : severity_rank(d.severity) = 1)
            \o SelectSeq(reversed, LAMBDA d : severity_rank(d.severity) = 2)
            \o SelectSeq(reversed, LAMBDA d : severity_rank(d.severity) = 3))

\* defects.sort(key=...): list.sort is stable, so the defects of one rank
\* keep the order they had
SortBySeverity(defects) ==
    SelectSeq(defects, LAMBDA d : severity_rank(d.severity) = 0)
    \o SelectSeq(defects, LAMBDA d : severity_rank(d.severity) = 1)
    \o SelectSeq(defects, LAMBDA d : severity_rank(d.severity) = 2)
    \o SelectSeq(defects, LAMBDA d : severity_rank(d.severity) = 3)

\* a variant of LimitDefects: no cap
LimitDefects_NoCap(sorted, limit) == sorted

\* defects[:max_defects] of the sorted list
LimitDefects(sorted, limit) == Take(sorted, limit)

max_defects == 50

(***************************************************************************)
(* The inputs of the model                                                 *)
(***************************************************************************)

\* the values of self.app_package
Packages == {None, "com.foo"}

NpeLine ==
    "2024-01-01 10:00:00.000 ERROR 123 app_id:x --- [main] com.foo.Bar : java.lang.NullPointerException: boom\n"

OomLine ==
    "2024-01-01 10:00:00.001 ERROR 7 TID:1 app_id:x --- [m] c.B : java.lang.OutOfMemoryError: Java heap space\n"

IoLine == "java.io.IOException: disk at com.foo.A.b(A.java:1)\n"

AppFrameLine == "    at com.foo.Bar.doX(Bar.java:10)\n"

JdkFrameLine == "    at java.lang.Thread.run(Thread.java:1)\n"

ErrorColonLine == "Error: disk full\n"

ShortLine == "Error: x\n"

FailedLine == "Failed to open file\n"

RefusedLine == "Connection refused\n"

TimedOutLine == "request timed out\n"

InfoLine == "2024-01-01 10:00:00.002 INFO 7 app_id:x --- [m] c.B : started\n"

DebugLine == "DEBUG  cache miss\n"

BlankLine == "   \n"

LongLine ==
    "2024-01-01 10:00:00.003 ERROR 7 t u --- [a] l : IllegalStateException: "
    \o "the quick brown fox jumps over the lazy dog and keeps running, "
    \o "the quick brown fox jumps over the lazy dog and keeps running, "
    \o "the quick brown fox jumps over the lazy dog and keeps running, "
    \o "the quick brown fox jumps over the lazy dog and keeps running\n"

\* the lines the pure functions are applied to
Corpus ==
    {NpeLine, OomLine, IoLine, AppFrameLine, JdkFrameLine, ErrorColonLine,
     ShortLine, FailedLine, RefusedLine, TimedOutLine, InfoLine, DebugLine,
     BlankLine, LongLine}

\* the lines of the files analyze_logs reads
FileLines ==
    {OomLine, NpeLine, IoLine, FailedLine, ErrorColonLine, InfoLine, DebugLine}

\* a file is one line repeated up to MaxRun times, then up to MaxTail lines
MaxRun == 51

MaxTail == 1

\* max_length goes over 1..MaxLength and the two lengths the source passes
MaxLength == 30

RECURSIVE SeqsUpTo(_, _)
SeqsUpTo(S, n) ==
    IF n = 0 THEN {<<>>}
    ELSE LET shorter == SeqsUpTo(S, n - 1) IN
         shorter \cup {Append(q, e) : q \in {r \in shorter : Len(r) = n - 1}, e \in S}

Files ==
    {[i \in 1..n |-> l] \o tail :
        l \in FileLines, n \in 0..MaxRun, tail \in SeqsUpTo(FileLines, MaxTail)}

OtherFrameLine == "    at org.acme.Util.go(Util.java:7)\n"

CausedByLine == "Caused by: java.lang.IllegalStateException: no\n"

\* the lines of the stack texts _filter_stack_trace is applied to
FrameLines == {AppFrameLine, JdkFrameLine, OtherFrameLine, CausedByLine}

\* a stack text has up to MaxStack lines
MaxStack == 4

StackTexts == {Join(lines, "") : lines \in SeqsUpTo(FrameLines, MaxStack)}

\* the lines of the error logs _analyze_error_logs reads
ErrorLogLines == {NpeLine, InfoLine, AppFrameLine, JdkFrameLine}

\* an error log has up to MaxLines lines
MaxLines == 5

ErrorLogs == SeqsUpTo(ErrorLogLines, MaxLines)

WarnLine ==
    "2024-01-01 10:00:00.004 WARN 123 app_id:x --- [main] com.foo.Bar : cache is slow\n"

WarnTimedOutLine ==
    "2024-01-01 10:00:00.005 WARN 123 app_id:x --- [main] com.foo.Bar : request timed out\n"

\* a line that names the level and is no header
BareWarnLine == "WARN  disk almost full\n"

\* the lines of the logs read in error mode and in warn mode
WarnLogLines == {WarnLine, WarnTimedOutLine, BareWarnLine, NpeLine, InfoLine}

\* such a log has up to MaxWarnLines lines
MaxWarnLines == 3

WarnLogs == SeqsUpTo(WarnLogLines, MaxWarnLines)

RejectedFrameLine ==
    "    at java.util.concurrent.ThreadPoolExecutor$AbortPolicy.rejectedExecution(ThreadPoolExecutor.java:2063)\n"

\* the stack frames that follow the header line of a trace
TraceFrameLines == {AppFrameLine, JdkFrameLine, RejectedFrameLine}

\* a trace has up to MaxTrace frames
MaxTrace == 4

\* a file that is one trace: the ERROR header line, then its frames
Traces == {<<NpeLine>> \o frames : frames \in SeqsUpTo(TraceFrameLines, MaxTrace)}

\* the levels a header line names
LineLevels == {"ERROR", "WARN", "INFO", "DEBUG"}

\* the header of a line of the level, up to its message
HeaderOf(level) ==
    "2024-01-01 10:00:00.006 " \o level \o " 7 app_id:x --- [m] c.B : "

\* a text of more than MaxMessage characters
LongTail ==
    "0123456789 abcdefghij klmnopqrst uvwxyz "
    \o "0123456789 abcdefghij klmnopqrst uvwxyz "
    \o "0123456789 abcdefghij klmnopqrst uvwxyz"

SqlMessage == "java.sql.SQLException: no such table"

FileNotFoundMessage == "java.io.FileNotFoundException: a.txt"

\* the messages of the lines _extract_exception_info is applied to: one
\* for each branch of it, and long ones
Messages ==
    {SqlMessage, FileNotFoundMessage,
     "java.lang.NullPointerException: boom",
     "IllegalStateException: " \o LongTail,
     "Error: " \o LongTail,
     "Failed to " \o LongTail,
     "Error: disk full",
     "Connection refused",
     "request timed out",
     "started"}

\* the lines _extract_exception_info is applied to: a message, by itself
\* and under a header of each level
ExtractLines ==
    {header \o message \o "\n" :
        header \in {""} \cup {HeaderOf(level) : level \in LineLevels},
        message \in Messages}

\* the lines of the files of header lines of every level
LevelLines ==
    {HeaderOf(level) \o message \o "\n" :
        level \in LineLevels,
        message \in {SqlMessage, "Error: disk full", "request timed out", "started"}}

\* such a file has up to MaxLevelLines lines
MaxLevelLines == 2

LevelFiles == SeqsUpTo(LevelLines, MaxLevelLines)

\* _is_relevant_log_line and _extract_exception_info of the lines of the
\* files, computed once: <<app_package, line, relevant, info>>
line_analysis ==
    {<<p, l, _is_relevant_log_line(l), _extract_exception_info(l, p)>> :
        p \in Packages,
        l \in FileLines \cup TraceFrameLines \cup WarnLogLines \cup LevelLines}

AnalysisOf(line, app_package) ==
    CHOOSE a \in line_analysis : a[1] = app_package /\ a[2] = line

\* if not self._is_relevant_log_line(line): continue; ... if exception_info:
IsDefectLine(line, app_package) ==
    /\ AnalysisOf(line, app_package)[3]
    /\ Len(AnalysisOf(line, app_package)[4]) > 0

\* the dict analyze_logs appends for the line line_num
Defect(line_num, exception_info) ==
    [line_number |-> line_num,
     log_line |-> exception_info.key_info,
     defect_type |-> exception_info.exception_type,
     severity |-> exception_info.severity,
     pattern |-> exception_info.pattern,
     exception_message |-> exception_info.exception_message,
     suggestion |-> None]

\* for line_num, line in enumerate(all_log_lines, 1): ... defects.append(...)
DefectsOf(all_log_lines, app_package) ==
    Let(SelectSeq([i \in 1..Len(all_log_lines) |-> i],
                  LAMBDA i : IsDefectLine(all_log_lines[i], app_package)),
        LAMBDA found :
            [k \in 1..Len(found) |->
                Defect(found[k],
                       AnalysisOf(all_log_lines[found[k]], app_package)[4][1])])

\* a variant of analyze_logs: the cap applied before the sort
analyze_logs_CapFirst(all_log_lines, app_package) ==
    Let(DefectsOf(all_log_lines, app_package),
        LAMBDA defects :
            [total_defects |-> Len(defects),
             defects |-> SortBySeverity(LimitDefects(defects, max_defects))])

\* LogAnalyzer.analyze_logs, from the lines read on
analyze_logs(all_log_lines, app_package) ==
    Let(DefectsOf(all_log_lines, app_package),
        LAMBDA defects :
            [total_defects |-> Len(defects),
             defects |-> LimitDefects(SortBySeverity(defects), max_defects)])

(***************************************************************************)
(* search_logs, and _search_logs of packages/log_analyzer                  *)
(***************************************************************************)

LowerExceptionLine == "handler caught an exception in worker\n"

DebugExceptionLine == "DEBUG  exception swallowed\n"

\* the lines of the files search_logs reads
SearchLines == {NpeLine, LowerExceptionLine, DebugExceptionLine, InfoLine}

SearchKeywords == {"Exception", "started"}

\* a file searched is up to MaxSearchLines lines, or one line repeated up to
\* MaxHits times and then up to MaxTail lines
MaxSearchLines == 5

MaxHits == 31

SearchFiles ==
    SeqsUpTo(SearchLines, MaxSearchLines)
    \cup {[i \in 1..n |-> l] \o tail :
            l \in SearchLines, n \in 0..MaxHits, tail \in SeqsUpTo(SearchLines, MaxTail)}

\* the max_length search_logs asks _extract_key_info for
SearchKeyLength == 150

max_matches == 30

\* _is_relevant_log_line and _extract_key_info of the lines of the files
\* searched, computed once: <<app_package, line, relevant, key_info>>
search_analysis ==
    {<<p, l, _is_relevant_log_line(l), _extract_key_info(l, SearchKeyLength, p)>> :
        p \in Packages, l \in SearchLines}

SearchOf(line, app_package) ==
    CHOOSE a \in search_analysis : a[1] = app_package /\ a[2] = line

\* if not analyzer._is_relevant_log_line(line): continue
\* if keyword.lower() in line.lower():
IsMatchLine(line, keyword, app_package) ==
    SearchOf(line, app_package)[3] /\ ContainsCI(line, keyword)

\* the dict search_logs appends for the line line_num
Match(log_file, line_num, key_info) ==
    [file |-> log_file, line_number |-> line_num, content |-> key_info]

\* for line_num, line in enumerate(lines, 1): ... matches.append(...)
MatchesOf(lines, keyword, log_file, app_package) ==
    Let(SelectSeq([i \in 1..Len(lines) |-> i],
                  LAMBDA i : IsMatchLine(lines[i], keyword, app_package)),
        LAMBDA found :
            [k \in 1..Len(found) |->
                Match(log_file, found[k], SearchOf(lines[found[k]], app_package)[4])])

\* a variant of LimitMatches: no cap
LimitMatches_NoCap(matches, limit) == matches

\* matches[:max_matches]
LimitMatches(matches, limit) == Take(matches, limit)

\* search_logs, from the lines read on
search_logs(lines, keyword, log_file, app_package) ==
    Let(MatchesOf(lines, keyword, log_file, app_package),
        LAMBDA matches :
            [keyword |-> keyword,
             total_matches |-> Len(matches),
             matches |-> LimitMatches(matches, max_matches)])

\* the report of _search_logs
SearchReport(keyword, matches) ==
    [keyword |-> keyword, match_count |-> Len(matches), matches |-> matches]

\* LogAnalyzer._search_logs of packages/log_analyzer: if keyword in line
_search_logs(log_lines, keyword) ==
    SearchReport(keyword, SelectSeq(log_lines, LAMBDA line : Contains(line, keyword)))

(***************************************************************************)
(* packages/log_analyzer: the reconstruction of error records              *)
(***************************************************************************)

\* the dict _parse_log_entry returns for a match of log_pattern
LogEntry(line, match) ==
    [timestamp |-> GroupText(line, match, 1),
     level |-> GroupText(line, match, 2),
     app_id |-> GroupText(line, match, 3),
     thread |-> GroupText(line, match, 4),
     logger |-> GroupText(line, match, 5),
     message |-> GroupText(line, match, 6)]

\* LogAnalyzer._parse_log_entry: <<>> for None, else <<the dict>>
_parse_log_entry(line) ==
    Let(ReMatch(log_pattern, line, FALSE),
        LAMBDA match : IF Len(match) = 0 THEN <<>> ELSE <<LogEntry(line, match[1])>>)

\* for line in lines: line = line.strip(); if line.startswith("at "): ...
StackLines(lines) ==
    SelectSeq([i \in 1..Len(lines) |-> Strip(lines[i])],
              LAMBDA line : StartsWith(line, "at "))

\* if app_package and app_package in line: app_stack_trace.append(line)
AppStackLines(stack_trace, app_package) ==
    SelectSeq(stack_trace,
              LAMBDA line : Truthy(app_package) /\ Contains(line, app_package))

\* the details of the lines of a message, error_match the match of the
\* error pattern on the first of them
ErrorDetails(lines, error_match, app_package) ==
    [error_type |->
         IF Len(error_match) > 0 THEN GroupText(lines[1], error_match[1], 1) ELSE None,
     error_message |->
         IF Len(error_match) > 0 THEN GroupText(lines[1], error_match[1], 2) ELSE None,
     stack_trace |-> StackLines(lines),
     app_stack_trace |-> AppStackLines(StackLines(lines), app_package)]

\* LogAnalyzer._extract_error_details; message.split("\\n") splits at a
\* backslash followed by n
_extract_error_details(message, app_package) ==
    Let(Split(message, "\\n"),
        LAMBDA lines :
            ErrorDetails(lines, ReMatch(ErrorTypePattern, lines[1], FALSE), app_package))

\* _parse_log_entry of the lines of the error logs, computed once
parsed_lines ==
    {<<l, _parse_log_entry(l)>> : l \in ErrorLogLines \cup WarnLogLines}

\* log_entry = self._parse_log_entry(line)
EntryOf(line) == (CHOOSE p \in parsed_lines : p[1] = line)[2]

\* current_error = {...} for the entry of an ERROR line
NewError(log_entry, app_package) ==
    [timestamp |-> log_entry.timestamp,
     message |-> log_entry.message,
     details |-> _extract_error_details(log_entry.message, app_package)]

\* current_error["message"] += "\\n" + line, and the details again
Appended(error, line, app_package) ==
    [timestamp |-> error.timestamp,
     message |-> error.message \o "\\n" \o line,
     details |-> _extract_error_details(error.message \o "\\n" \o line, app_package)]

\* log_entry and log_entry["level"] == "ERROR"
IsErrorEntry(log_entry) ==
    Len(log_entry) > 0 /\ log_entry[1].level = "ERROR"

\* log_entry and log_entry["level"] == "WARN"
IsWarnEntry(log_entry) ==
    Len(log_entry) > 0 /\ log_entry[1].level = "WARN"

\* the dict _analyze_warn_logs appends for the entry of a WARN line
Warning(log_entry) ==
    [timestamp |-> log_entry.timestamp, message |-> log_entry.message]

\* the report of _analyze_warn_logs
WarnReport(warnings) ==
    [warning_count |-> Len(warnings), warnings |-> warnings]

\* a variant of _analyze_warn_logs: every header line kept, whatever its level
_analyze_warn_logs_AnyLevel(log_lines) ==
    Let(SelectSeq(log_lines, LAMBDA line : Len(EntryOf(line)) > 0),
        LAMBDA kept :
            WarnReport([k \in 1..Len(kept) |-> Warning(EntryOf(kept[k])[1])]))

\* LogAnalyzer._analyze_warn_logs
_analyze_warn_logs(log_lines) ==
    Let(SelectSeq(log_lines, LAMBDA line : IsWarnEntry(EntryOf(line))),
        LAMBDA kept :
            WarnReport([k \in 1..Len(kept) |-> Warning(EntryOf(kept[k])[1])]))

(***************************************************************************)
(* The paths of the log files                                              *)
(***************************************************************************)

\* the current drives of the platforms with drive letters
Drives == {"C:", "D:"}

\* the platforms: os.name, the drive of os.getcwd(), and what the files
\* at the paths looked up are: all missing, all there and unreadable, or all
\* there and readable
Platforms ==
    [name : {"posix"}, drive : {""}, files : {"missing", "unreadable", "readable"}]
    \cup [name : {"nt"}, drive : Drives, files : {"missing", "unreadable", "readable"}]

\* s.lstrip(c)
LStrip(s, c) ==
    IF s = "" THEN ""
    ELSE From(s, FirstAt(1, Len(s), LAMBDA i : Char(s, i) # c))

\* s.replace(old, new)
Replace(s, old, new) == Join(Split(s, old), new)

\* ntpath.join(path, *paths) for paths that hold no drive and no separator:
\* a separator is put before a part unless the path so far ends with one
RECURSIVE NtJoin(_, _)
NtJoin(result_path, paths) ==
    IF Len(paths) = 0 THEN result_path
    ELSE NtJoin((IF result_path # ""
                    /\ Char(result_path, Len(result_path)) \notin {"\\", "/"}
                 THEN result_path \o "\\"
                 ELSE result_path) \o paths[1],
                Tail(paths))

\* a variant of _convert_path_for_platform: the paths that start with "//"
\* converted too
_convert_path_for_platform_AnyRoot(path, platform) ==
    IF ~Truthy(path) THEN path
    ELSE IF platform.name = "nt" /\ StartsWith(path, "/")
    THEN NtJoin(platform.drive \o "\\", Split(LStrip(path, "/"), "/"))
    ELSE path

\* LogAnalyzer._convert_path_for_platform
_convert_path_for_platform(path, platform) ==
    IF ~Truthy(path) THEN path
    ELSE IF platform.name = "nt" /\ StartsWith(path, "/") /\ ~StartsWith(path, "//")
    THEN NtJoin(platform.drive \o "\\", Split(LStrip(path, "/"), "/"))
    ELSE path

PathNames == {"data", "logs", "log_error.log"}

\* a path has up to MaxDepth names
MaxDepth == 3

\* the paths converted: names joined by "/", after no, one or two "/" and
\* before no or one "/", and some more
PathInputs ==
    {root \o Join(names, "/") \o last :
        root \in {"", "/", "//"},
        names \in SeqsUpTo(PathNames, MaxDepth),
        last \in {"", "/"}}
    \cup {"/data/logs/app/log_error.log", "/data//logs/app.log",
          "D:\\logs\\error.log"}

(***************************************************************************)
(* The calls, from the paths on                                            *)
(***************************************************************************)

\* Python's a or b
Or(a, b) == IF Truthy(a) THEN a ELSE b

Levels == {"error", "warn", "all"}

\* the path given for a level by the caller ("call"), to the constructor
\* ("init") or in the environment variable of the level ("env")
Given(origin, level) == "/" \o origin \o "/" \o level \o ".log"

\* what a call can pass as the path of a level
CallPaths(level) == {None, "", Given("call", level)}

\* what the constructor is passed as the path of a level, and the
\* environment variable of the level (None when it is not set)
Configured(level) ==
    {[arg |-> None, env |-> None],
     [arg |-> None, env |-> ""],
     [arg |-> None, env |-> Given("env", level)],
     [arg |-> Given("init", level), env |-> Given("env", level)]}

\* LogAnalyzer._get_default_log_path_for_platform
_get_default_log_path_for_platform(platform) ==
    IF platform.name = "nt"
    THEN NtJoin(platform.drive \o "\\", <<"data", "logs">>)
    ELSE "/data/logs"

\* LogAnalyzer.__init__ with a configuration that names no log path, for
\* the application "app": error, warn and all are what is configured for
\* the levels
LogAnalyzer(error, warn, all, platform) ==
    [app_package |-> None,
     log_path |-> _get_default_log_path_for_platform(platform),
     app_name |-> "app",
     error_log_path |-> Or(error.arg, error.env),
     warn_log_path |-> Or(warn.arg, warn.env),
     all_log_path |-> Or(all.arg, all.env)]

\* LogAnalyzer._get_default_log_path
_get_default_log_path(this, log_level) ==
    IF log_level = "error" THEN this.log_path \o "/" \o this.app_name \o "/log_error.log"
    ELSE IF log_level = "warn" THEN this.log_path \o "/" \o this.app_name \o "/log_warn.log"
    ELSE this.log_path \o "/" \o this.app_name \o "/all.log"

\* LogAnalyzer._get_log_file_path
_get_log_file_path(this, log_level) ==
    IF log_level = "error" /\ Truthy(this.error_log_path) THEN this.error_log_path
    ELSE IF log_level = "warn" /\ Truthy(this.warn_log_path) THEN this.warn_log_path
    ELSE IF log_level = "all" /\ Truthy(this.all_log_path) THEN this.all_log_path
    ELSE _get_default_log_path(this, log_level)

\* log_file = error_log_path or self.error_log_path, and so for the levels
OverrideOf(this, log_level, error_log_path, warn_log_path, all_log_path) ==
    IF log_level = "error" THEN Or(error_log_path, this.error_log_path)
    ELSE IF log_level = "warn" THEN Or(warn_log_path, this.warn_log_path)
    ELSE Or(all_log_path, this.all_log_path)

\* if log_file is None: log_file = self._get_log_file_path(log_level)
LogFileOf(this, log_level, log_file) ==
    IF log_file = None THEN _get_log_file_path(this, log_level) ELSE log_file

\* os.path.exists(path)
Exists(path, platform) == path # "" /\ platform.files # "missing"

\* the lines of the files that can be read
FileContent == <<NpeLine, AppFrameLine, WarnLine>>

\* the lines of the file of a platform: the ones the platform names, the
\* lines of FileContent when it names none
ContentOf(platform) ==
    IF "content" \in DOMAIN platform THEN platform.content ELSE FileContent

\* lines[-max_lines:]: -0 is 0, so the slice begins at the first line for
\* max_lines = 0; for max_lines < 0 it begins after the first -max_lines lines
LastLines(lines, max_lines) ==
    IF max_lines = 0 THEN lines
    ELSE IF max_lines < 0 THEN SubSeq(lines, 1 - max_lines, Len(lines))
    ELSE IF max_lines >= Len(lines) THEN lines
    ELSE SubSeq(lines, Len(lines) - max_lines + 1, Len(lines))

\* expanded_path of _read_log_file
ExpandedPath(this, file_path, platform) ==
    _convert_path_for_platform(
        Replace(Replace(file_path, "${logging.path}", this.log_path),
                "${spring.application.name}", this.app_name),
        platform)

\* the path _read_log_file opens, None when it returns before it opens one
PathToOpen(file_path, expanded_path, platform) ==
    IF Exists(expanded_path, platform) THEN expanded_path
    ELSE IF expanded_path # file_path
            /\ Exists(_convert_path_for_platform(file_path, platform), platform)
    THEN _convert_path_for_platform(file_path, platform)
    ELSE None

\* LogAnalyzer._read_log_file: open raises for a file that cannot be read,
\* and the except clause leaves lines empty
_read_log_file(this, file_path, max_lines, platform) ==
    IF PathToOpen(file_path, ExpandedPath(this, file_path, platform), platform) = None
    THEN <<>>
    ELSE IF platform.files = "unreadable" THEN <<>>
    ELSE LastLines(ContentOf(platform), max_lines)

linux_path_patterns == <<"/data/", "/var/", "/tmp/", "/usr/", "/opt/">>

\* is_linux_path_on_windows of _validate_log_path
IsLinuxPathOnWindows(log_path, platform) ==
    /\ platform.name = "nt"
    /\ StartsWith(log_path, "/")
    /\ ~StartsWith(log_path, "//")
    /\ \E p \in 1..Len(linux_path_patterns) : StartsWith(log_path, linux_path_patterns[p])

\* the suggestions of _validate_log_path; the texts are Chinese in the source
Suggestions(log_path, file_exists, is_linux_path_on_windows) ==
    IF is_linux_path_on_windows
    THEN <<"Linux path format (/data/logs) found, it may not exist on Windows.",
           "Advice: name a Windows path in the environment variable ERROR_LOG_PATH">>
    ELSE IF ~file_exists
    THEN <<"The log file does not exist: " \o log_path,
           "Advice: check the path, or configure the path in the environment">>
    ELSE <<>>

\* LogAnalyzer._validate_log_path
_validate_log_path(log_path, platform) ==
    IF ~Truthy(log_path)
    THEN [exists |-> FALSE, path |-> log_path, suggestions |-> <<>>]
    ELSE IF Exists(log_path, platform) /\ ~IsLinuxPathOnWindows(log_path, platform)
    THEN [exists |-> TRUE, path |-> log_path, suggestions |-> <<>>]
    ELSE [exists |-> FALSE, path |-> log_path,
          suggestions |-> Suggestions(log_path, Exists(log_path, platform),
                                      IsLinuxPathOnWindows(log_path, platform))]

\* str(n) for n >= 0
RECURSIVE Str(_)
Str(n) ==
    IF n < 10 THEN SubSeq("0123456789", n + 1, n + 1)
    ELSE Str(n \div 10) \o SubSeq("0123456789", (n % 10) + 1, (n % 10) + 1)

\* the note of the report; the text is Chinese in the source
NoteOf(defects) ==
    IF Len(defects) > max_defects
    THEN "the first " \o Str(Min(max_defects, Len(defects)))
         \o " defects are shown (sorted by severity)"
    ELSE None

\* the dict analyze_logs returns, without its analysis_time
Report(defects, log_file, warnings) ==
    [total_defects |-> Len(defects),
     defects |-> LimitDefects(SortBySeverity(defects), max_defects),
     log_files_analyzed |-> <<log_file>>,
     note |-> NoteOf(defects),
     warnings |-> IF Len(warnings) > 0 THEN warnings ELSE None]

\* LogAnalyzer.analyze_logs from the file it chose on
ReportOn(this, log_file, max_lines, platform) ==
    Report(DefectsOf(_read_log_file(this, log_file, max_lines, platform),
                     this.app_package),
           log_file,
           Take(_validate_log_path(log_file, platform).suggestions, 2))

\* LogAnalyzer.analyze_logs, the whole of it
AnalyzeLogsCall(this, log_level, max_lines, error_log_path, warn_log_path, all_log_path, platform) ==
    ReportOn(this,
             LogFileOf(this, log_level,
                       OverrideOf(this, log_level, error_log_path, warn_log_path,
                                  all_log_path)),
             max_lines, platform)

\* how late the clock stands when the first call is made
MaxClock == 1

\* datetime.now().isoformat() at the second now of the clock
Iso(now) == "2024-01-01T10:00:" \o (IF now < 10 THEN "0" ELSE "") \o Str(now)

\* a variant of Stamped: the time is written into every defect as well
Stamped_Defects(report, now) ==
    [total_defects |-> report.total_defects,
     defects |-> [k \in 1..Len(report.defects) |->
                      [report.defects[k] EXCEPT !.suggestion = Iso(now)]],
     log_files_analyzed |-> report.log_files_analyzed,
     analysis_time |-> Iso(now),
     note |-> report.note,
     warnings |-> report.warnings]

\* the dict analyze_logs returns, with its analysis_time
Stamped(report, now) ==
    [total_defects |-> report.total_defects,
     defects |-> report.defects,
     log_files_analyzed |-> report.log_files_analyzed,
     analysis_time |-> Iso(now),
     note |-> report.note,
     warnings |-> report.warnings]

\* for line in log_lines of _analyze_error_logs, from the line at on: the
\* errors it ends with
RECURSIVE ErrorLoop(_, _, _, _, _)
ErrorLoop(log_lines, at, errs, current, app_package) ==
    IF at > Len(log_lines) THEN errs \o current
    ELSE IF IsErrorEntry(EntryOf(log_lines[at]))
    THEN ErrorLoop(log_lines, at + 1, errs \o current,
                   <<NewError(EntryOf(log_lines[at])[1], app_package)>>, app_package)
    ELSE IF Len(current) > 0
    THEN ErrorLoop(log_lines, at + 1, errs,
                   <<Appended(current[1], log_lines[at], app_package)>>, app_package)
    ELSE ErrorLoop(log_lines, at + 1, errs, current, app_package)

\* LogAnalyzer._analyze_error_logs of packages/log_analyzer
_analyze_error_logs(log_lines, app_package) ==
    Let(ErrorLoop(log_lines, 1, <<>>, <<>>, app_package),
        LAMBDA errs : [error_count |-> Len(errs), errors |-> errs])

\* an exception that leaves the call
Raised(exception) == [raised |-> exception]

\* results["error_logs"] and results["warn_logs"] of analyze: the analysis
\* of the lines of the file, or the error that the file is not there; the
\* text is Chinese in the source
LogsEntry(log_file, analysis, platform) ==
    IF Exists(log_file, platform) THEN analysis
    ELSE [error |-> "the log file does not exist: " \o log_file]

\* LogAnalyzer.analyze of packages/log_analyzer, without its timestamp:
\* open raises for a file that cannot be read, and nothing catches it
analyze(this, platform) ==
    IF \E level \in {"error", "warn"} :
           /\ Exists(_get_log_file_path(this, level), platform)
           /\ platform.files = "unreadable"
    THEN Raised("OSError")
    ELSE [app_name |-> this.app_name,
          log_path |-> this.log_path,
          error_logs |->
              LogsEntry(_get_log_file_path(this, "error"),
                        _analyze_error_logs(FileContent, this.app_package), platform),
          warn_logs |->
              LogsEntry(_get_log_file_path(this, "warn"),
                        _analyze_warn_logs(FileContent), platform)]

(***************************************************************************)
(* The catalogue of error patterns: _get_error_patterns                    *)
(*                                                                         *)
(* A value that json.loads makes is a record with its type in t: a str     *)
(* [t, s], an int [t, n], a bool [t, b], None [t], a list [t, items] and a *)
(* dict [t, members], the members in the order of the text.  The strings   *)
(* of the catalogue are such values as well, so that an entry read from    *)
(* the environment and an entry of the source compare.  The texts hold no  *)
(* escape, fraction or exponent.                                           *)
(***************************************************************************)

PyStr(s) == [t |-> "str", s |-> s]

PyInt(n) == [t |-> "int", n |-> n]

PyBool(b) == [t |-> "bool", b |-> b]

PyNone == [t |-> "NoneType"]

PyList(items) == [t |-> "list", items |-> items]

PyDict(members) == [t |-> "dict", members |-> members]

\* what a step of the decoder gives: the value and the position after it,
\* or no value
Decoded(value, next) == [ok |-> TRUE, value |-> value, next |-> next]

NotDecoded == [ok |-> FALSE]

\* json: the whitespace between tokens
JsonSpace == {" ", "\t", "\n", "\r"}

\* the first position from i on that holds no whitespace
SkipSpace(s, i) == FirstAt(i, Len(s), LAMBDA j : Char(s, j) \notin JsonSpace)

\* s[i-1:j-1]
Between(s, i, j) == IF j <= i THEN "" ELSE SubSeq(s, i, j - 1)

\* int of a run of digits
RECURSIVE IntOf(_)
IntOf(digits) ==
    IF digits = "" THEN 0
    ELSE 10 * IntOf(Prefix(digits, Len(digits) - 1))
         + (CHOOSE d \in 0..9 : Str(d) = Char(digits, Len(digits)))

\* json: a string from its opening quote at i
DecodeString(s, i) ==
    Let(FirstAt(i + 1, Len(s), LAMBDA j : Char(s, j) = "\""),
        LAMBDA close :
            IF close > Len(s) THEN NotDecoded
            ELSE Decoded(PyStr(Between(s, i + 1, close)), close + 1))

\* json: an integer from i
DecodeInt(s, i) ==
    Let(IF Char(s, i) = "-" THEN i + 1 ELSE i,
        LAMBDA first :
            Let(FirstAt(first, Len(s), LAMBDA j : Char(s, j) \notin Digits),
                LAMBDA end :
                    IF end = first THEN NotDecoded
                    ELSE IF Char(s, first) = "0" /\ end > first + 1 THEN
                        Decoded(PyInt(0), first + 1)
                    ELSE Decoded(PyInt(IF first = i
                                       THEN IntOf(Between(s, first, end))
                                       ELSE 0 - IntOf(Between(s, first, end))),
                                 end)))

RECURSIVE DecodeValue(_, _)
RECURSIVE DecodeItems(_, _, _)
RECURSIVE DecodeMembers(_, _, _)

\* json: the value that starts at i
DecodeValue(s, i) ==
    IF i > Len(s) THEN NotDecoded
    ELSE IF Char(s, i) = "\"" THEN DecodeString(s, i)
    ELSE IF Char(s, i) = "[" THEN
        Let(SkipSpace(s, i + 1),
            LAMBDA j : IF j <= Len(s) /\ Char(s, j) = "]"
                       THEN Decoded(PyList(<<>>), j + 1)
                       ELSE DecodeItems(s, j, <<>>))
    ELSE IF Char(s, i) = "{" THEN
        Let(SkipSpace(s, i + 1),
            LAMBDA j : IF j <= Len(s) /\ Char(s, j) = "}"
                       THEN Decoded(PyDict(<<>>), j + 1)
                       ELSE DecodeMembers(s, j, <<>>))
    ELSE IF StartsWithAt(s, "null", i) THEN Decoded(PyNone, i + 4)
    ELSE IF StartsWithAt(s, "true", i) THEN Decoded(PyBool(TRUE), i + 4)
    ELSE IF StartsWithAt(s, "false", i) THEN Decoded(PyBool(FALSE), i + 5)
    ELSE DecodeInt(s, i)

\* json: the items of an array from the item at i on, after those in items
DecodeItems(s, i, items) ==
    Let(DecodeValue(s, i),
        LAMBDA item :
            IF ~item.ok THEN NotDecoded
            ELSE Let(SkipSpace(s, item.next),
                     LAMBDA j :
                         IF j > Len(s) THEN NotDecoded
                         ELSE IF Char(s, j) = "]" THEN
                             Decoded(PyList(Append(items, item.value)), j + 1)
                         ELSE IF Char(s, j) = "," THEN
                             DecodeItems(s, SkipSpace(s, j + 1),
                                         Append(items, item.value))
                         ELSE NotDecoded))

\* json: the members of an object from the key at i on, after those in
\* members
DecodeMembers(s, i, members) ==
    IF i > Len(s) \/ Char(s, i) # "\"" THEN NotDecoded
    ELSE Let(DecodeString(s, i),
             LAMBDA key :
                 IF ~key.ok THEN NotDecoded
                 ELSE Let(SkipSpace(s, key.next),
                          LAMBDA colon :
                              IF colon > Len(s) \/ Char(s, colon) # ":"
                              THEN NotDecoded
                              ELSE Let(DecodeValue(s, SkipSpace(s, colon + 1)),
                                       LAMBDA value :
                                           IF ~value.ok THEN NotDecoded
                                           ELSE Let(SkipSpace(s, value.next),
                                                    LAMBDA j :
              IF j > Len(s) THEN NotDecoded
              ELSE IF Char(s, j) = "}" THEN
                  Decoded(PyDict(Append(members, <<key.value.s, value.value>>)),
                          j + 1)
              ELSE IF Char(s, j) = "," THEN
                  DecodeMembers(s, SkipSpace(s, j + 1),
                                Append(members, <<key.value.s, value.value>>))
              ELSE NotDecoded))))

\* json.loads: the value, or no value where it raises JSONDecodeError
json_loads(s) ==
    Let(DecodeValue(s, SkipSpace(s, 1)),
        LAMBDA whole :
            IF whole.ok /\ SkipSpace(s, whole.next) > Len(s) THEN whole
            ELSE NotDecoded)

\* the items of the override lists, as the text of the environment has
\* them: records with a key of the defaults and with a key of their own,
\* with and without a severity; records that lack a name; items that are no
\* records; records whose pattern is no str
OverrideItems ==
    {"{\"pattern\": \"NullPointerException\", \"description\": \"NPE\", \"severity\": \"critical\"}",
     "{\"pattern\": \"NullPointerException\", \"description\": \"NPE again\"}",
     "{\"pattern\": \"MyAppException\", \"description\": \"app\", \"severity\": \"high\"}",
     "{\"description\": \"app again\", \"pattern\": \"MyAppException\"}",
     "{\"pattern\": \"OnlyPattern\"}",
     "{}",
     "5",
     "null",
     "\"pattern description\"",
     "\"text\"",
     "[\"pattern\", \"description\"]",
     "{\"pattern\": [\"a\"], \"description\": \"list\"}",
     "{\"pattern\": 1, \"description\": \"one\"}",
     "{\"pattern\": true, \"description\": \"yes\"}"}

\* how many items an override list holds at most
MaxItems == 2

\* the texts that are lists of the items
OverrideLists ==
    {"[" \o Join(items, ", ") \o "]" : items \in SeqsUpTo(OverrideItems, MaxItems)}

\* texts that are no list, and texts that json.loads does not take
OtherTexts ==
    {"",
     "5",
     "null",
     "\"pattern\"",
     "{\"pattern\": \"MyAppException\", \"description\": \"app\"}",
     "{\"pattern description\": 1}",
     "[{\"pattern\": \"MyAppException\", \"description\": \"app\"}",
     "[{\"pattern\": \"MyAppException\", \"description\": \"app\"},]",
     "[{'pattern': 'MyAppException', 'description': 'app'}]",
     "MyAppException"}

\* the values of ERROR_PATTERNS
PatternTexts == OverrideLists \cup OtherTexts

\* json.loads of the values of ERROR_PATTERNS, each decoded once
json_decoded == [text \in PatternTexts |-> json_loads(text)]

\* json.loads(text)
Loaded(text) ==
    IF text \in DOMAIN json_decoded THEN json_decoded[text] ELSE json_loads(text)

\* a step inside the try of _get_error_patterns: the value it gives, or the
\* exception it raises
Gives(value) == [throws |-> "", value |-> value]

Throws(exception) == [throws |-> exception]

IsThrown(result) == result.throws # ""

\* for item in v: the items, or the TypeError of a value that is not
\* iterable; a dict gives its keys and a str its characters
IterOf(v) ==
    IF v.t = "list" THEN Gives(v.items)
    ELSE IF v.t = "dict" THEN
        Gives([k \in 1..Len(v.members) |-> PyStr(v.members[k][1])])
    ELSE IF v.t = "str" THEN Gives([k \in 1..Len(v.s) |-> PyStr(Char(v.s, k))])
    ELSE Throws("TypeError")

\* name in item, for the values that have the test
HasName(item, name) ==
    IF item.t = "dict" THEN \E k \in 1..Len(item.members) : item.members[k][1] = name
    ELSE IF item.t = "str" THEN Contains(item.s, name)
    ELSE \E k \in 1..Len(item.items) : item.items[k] = PyStr(name)

\* "pattern" in item and "description" in item, or the TypeError of an item
\* that has no such test
IsRecord(item) ==
    IF item.t \in {"dict", "str", "list"}
    THEN Gives(HasName(item, "pattern") /\ HasName(item, "description"))
    ELSE Throws("TypeError")

\* item[name] of a dict that has the name: the value the text gave last
GetItem(item, name) ==
    item.members[LastAt(1, Len(item.members),
                        LAMBDA k : item.members[k][1] = name)][2]

\* item.get(name, default)
Get(item, name, default) ==
    IF HasName(item, name) THEN GetItem(item, name) ELSE default

\* (item["pattern"], item["description"], item.get("severity", "medium")),
\* or the TypeError of indexing a str or a list with a str
TupleOf(item) ==
    IF item.t = "dict"
    THEN Gives(<<GetItem(item, "pattern"), GetItem(item, "description"),
                 Get(item, "severity", PyStr("medium"))>>)
    ELSE Throws("TypeError")

\* custom_patterns_list of the items from at on, after the tuples in list
RECURSIVE CustomList(_, _, _)
CustomList(items, at, list) ==
    IF at > Len(items) THEN Gives(list)
    ELSE Let(IsRecord(items[at]),
             LAMBDA test :
                 IF IsThrown(test) THEN test
                 ELSE IF ~test.value THEN CustomList(items, at + 1, list)
                 ELSE Let(TupleOf(items[at]),
                          LAMBDA tuple :
                              IF IsThrown(tuple) THEN tuple
                              ELSE CustomList(items, at + 1,
                                              Append(list, tuple.value))))

\* hash(v) is defined
Hashable(v) == v.t \notin {"list", "dict"}

\* the number a key counts as where it is one: True is 1 and False is 0
NumberOf(v) == IF v.t = "int" THEN v.n ELSE IF v.b THEN 1 ELSE 0

\* two keys are the same key of a dict
SameKey(a, b) ==
    IF a.t \in {"int", "bool"} /\ b.t \in {"int", "bool"}
    THEN NumberOf(a) = NumberOf(b)
    ELSE a = b

\* a variant of Put: the entry is added even where the key is there
Put_Twice(patterns_dict, entry) == Append(patterns_dict, entry)

\* patterns_dict[pattern] = (pattern, desc, severity), patterns_dict being
\* the values of the dict in the order of their keys
Put(patterns_dict, entry) ==
    IF \E k \in 1..Len(patterns_dict) : SameKey(patterns_dict[k][1], entry[1])
    THEN [k \in 1..Len(patterns_dict) |->
              IF SameKey(patterns_dict[k][1], entry[1]) THEN entry
              ELSE patterns_dict[k]]
    ELSE Append(patterns_dict, entry)

\* the two loops that fill patterns_dict, or the TypeError of a pattern
\* that cannot be hashed
RECURSIVE PutAll(_, _, _)
PutAll(patterns_dict, list, at) ==
    IF at > Len(list) THEN Gives(patterns_dict)
    ELSE IF ~Hashable(list[at][1]) THEN Throws("TypeError")
    ELSE PutAll(Put(patterns_dict, list[at]), list, at + 1)

\* default_patterns; the descriptions are Chinese in the source
default_patterns ==
    <<<<PyStr("NullPointerException"), PyStr("null pointer exception"), PyStr("high")>>,
      <<PyStr("IndexOutOfBoundsException"), PyStr("index out of bounds exception"),
        PyStr("high")>>,
      <<PyStr("SQLException|DatabaseException"), PyStr("database exception"),
        PyStr("high")>>,
      <<PyStr("Connection.*refused|Connection.*timeout"), PyStr("connection exception"),
        PyStr("medium")>>,
      <<PyStr("OutOfMemoryError"), PyStr("out of memory"), PyStr("critical")>>,
      <<PyStr("StackOverflowError"), PyStr("stack overflow"), PyStr("critical")>>,
      <<PyStr("ClassNotFoundException"), PyStr("class not found"), PyStr("high")>>,
      <<PyStr("MethodNotFoundException"), PyStr("method not found"), PyStr("high")>>,
      <<PyStr("TimeoutException|ReadTimeout|ConnectTimeout"), PyStr("timeout exception"),
        PyStr("medium")>>,
      <<PyStr("FileNotFoundException"), PyStr("file not found"), PyStr("medium")>>,
      <<PyStr("Permission denied|Access denied"), PyStr("permission denied"),
        PyStr("medium")>>>>

\* the body of the try: the merged catalogue, or the exception raised
Merged(custom_patterns_json) ==
    Let(Loaded(custom_patterns_json),
        LAMBDA loaded :
            IF ~loaded.ok THEN Throws("JSONDecodeError")
            ELSE Let(IterOf(loaded.value),
                     LAMBDA items :
                         IF IsThrown(items) THEN items
                         ELSE Let(CustomList(items.value, 1, <<>>),
                                  LAMBDA custom_patterns_list :
                                      IF IsThrown(custom_patterns_list)
                                      THEN custom_patterns_list
                                      ELSE PutAll(PutAll(<<>>, default_patterns, 1).value,
                                                  custom_patterns_list.value, 1))))

\* what _get_error_patterns gives and prints, of what the try gave
Caught(merged, debug) ==
    IF IsThrown(merged)
    THEN [patterns |-> default_patterns,
          printed |-> IF Truthy(debug) THEN <<merged.throws>> ELSE <<>>]
    ELSE [patterns |-> merged.value, printed |-> <<>>]

\* a variant of _get_error_patterns: an empty catalogue where the try raised
_get_error_patterns_Empty(environ) ==
    IF Truthy(environ.ERROR_PATTERNS)
    THEN Let(Merged(environ.ERROR_PATTERNS),
             LAMBDA merged :
                 IF IsThrown(merged) THEN [patterns |-> <<>>, printed |-> <<>>]
                 ELSE Caught(merged, environ.LOG_ANALYZER_DEBUG))
    ELSE [patterns |-> default_patterns, printed |-> <<>>]

\* LogAnalyzer._get_error_patterns, with what it prints
_get_error_patterns(environ) ==
    IF Truthy(environ.ERROR_PATTERNS)
    THEN Caught(Merged(environ.ERROR_PATTERNS), environ.LOG_ANALYZER_DEBUG)
    ELSE [patterns |-> default_patterns, printed |-> <<>>]

(***************************************************************************)
(* The state: one LogAnalyzer and the call under way                       *)
(***************************************************************************)

VARIABLES
    os,             \* the platform the process runs on: [name, drive, files]
    self,           \* the LogAnalyzer: [app_package] and, where a call
                    \* reads them, the paths the constructor captured
    args,           \* the arguments of the call
    pc,             \* "call" before the call returns, "done" after
    ret,            \* what the call returned, None before it returns
    pos,            \* _analyze_error_logs: the line the loop is at, from 1
    errors,         \* _analyze_error_logs: errors
    current_error   \* _analyze_error_logs: <<>> for None, else <<the dict>>

vars == <<os, self, args, pc, ret, pos, errors, current_error>>

Analyzers == [app_package : Packages]

\* a platform without drive letters, every file of which can be read
Posix == [name |-> "posix", drive |-> "", files |-> "readable"]

\* no _analyze_error_logs under way
NoLoop == pos = 0 /\ errors = <<>> /\ current_error = <<>>

\* analyze_logs on the lines of a file
InitAnalyze ==
    /\ os = Posix
    /\ self \in Analyzers
    /\ args \in [op : {"analyze_logs"}, all_log_lines : Files]
    /\ pc = "call"
    /\ ret = None
    /\ NoLoop

AnalyzeLogs ==
    /\ args.op = "analyze_logs"
    /\ pc = "call"
    /\ pc' = "done"
    /\ ret' = analyze_logs(args.all_log_lines, self.app_package)
    /\ UNCHANGED <<os, self, args, pos, errors, current_error>>

NextAnalyze == AnalyzeLogs

SpecAnalyze == InitAnalyze /\ [][NextAnalyze]_vars

\* analyze_logs on a file that is one trace
InitTrace ==
    /\ os = Posix
    /\ self \in Analyzers
    /\ args \in [op : {"analyze_logs"}, all_log_lines : Traces]
    /\ pc = "call"
    /\ ret = None
    /\ NoLoop

SpecTrace == InitTrace /\ [][NextAnalyze]_vars

\* one log read in error mode by analyze_logs or in warn mode by
\* _analyze_warn_logs
InitWarn ==
    /\ os = Posix
    /\ self \in Analyzers
    /\ \/ args \in [op : {"analyze_logs"}, all_log_lines : WarnLogs]
       \/ args \in [op : {"_analyze_warn_logs"}, log_lines : WarnLogs]
    /\ pc = "call"
    /\ ret = None
    /\ NoLoop

AnalyzeWarnLogs ==
    /\ args.op = "_analyze_warn_logs"
    /\ pc = "call"
    /\ pc' = "done"
    /\ ret' = _analyze_warn_logs(args.log_lines)
    /\ UNCHANGED <<os, self, args, pos, errors, current_error>>

NextWarn == AnalyzeLogs \/ AnalyzeWarnLogs

SpecWarn == InitWarn /\ [][NextWarn]_vars

\* the platforms of the calls
CallPlatforms == {platform \in Platforms : platform.drive \in {"", "D:"}}

\* the analyzers the constructor makes on a platform
Constructed(platform) ==
    {LogAnalyzer(error, warn, all, platform) :
        error \in Configured("error"), warn \in Configured("warn"),
        all \in Configured("all")}

\* analyze_logs, or analyze of packages/log_analyzer, called on an analyzer
\* just constructed
InitCall ==
    /\ os \in CallPlatforms
    /\ self \in Constructed(os)
    /\ \/ args \in [op : {"LogAnalyzer.analyze_logs"},
                     log_level : Levels,
                     max_lines : {1000},
                     error_log_path : CallPaths("error"),
                     warn_log_path : CallPaths("warn"),
                     all_log_path : CallPaths("all")]
       \/ args \in [op : {"LogAnalyzer.analyze"}]
    /\ pc = "call"
    /\ ret = None
    /\ NoLoop

AnalyzeLogsOnPaths ==
    /\ args.op = "LogAnalyzer.analyze_logs"
    /\ pc = "call"
    /\ pc' = "done"
    /\ ret' = AnalyzeLogsCall(self, args.log_level, args.max_lines,
                              args.error_log_path, args.warn_log_path,
                              args.all_log_path, os)
    /\ UNCHANGED <<os, self, args, pos, errors, current_error>>

Analyze ==
    /\ args.op = "LogAnalyzer.analyze"
    /\ pc = "call"
    /\ pc' = "done"
    /\ ret' = analyze(self, os)
    /\ UNCHANGED <<os, self, args, pos, errors, current_error>>

NextCall == AnalyzeLogsOnPaths \/ Analyze

SpecCall == InitCall /\ [][NextCall]_vars

\* the largest max_lines of the calls of _read_log_file
MaxRead == 4

\* the files of the calls of _read_log_file: the first lines of FileContent
ReadFiles == {SubSeq(FileContent, 1, count) : count \in 0..Len(FileContent)}

\* the paths of the calls of _read_log_file
ReadPaths ==
    {"/data/logs/app/all.log", "${logging.path}/${spring.application.name}/all.log"}

\* _read_log_file called on an analyzer just constructed, on a platform
\* whose files hold the lines of os.content
InitRead ==
    /\ os \in {[name |-> platform.name, drive |-> platform.drive,
                 files |-> platform.files, content |-> content] :
                   platform \in CallPlatforms, content \in ReadFiles}
    /\ self \in Constructed(os)
    /\ args \in [op : {"LogAnalyzer._read_log_file"},
                  file_path : ReadPaths,
                  max_lines : 0..MaxRead]
    /\ pc = "call"
    /\ ret = None
    /\ NoLoop

ReadLogFile ==
    /\ args.op = "LogAnalyzer._read_log_file"
    /\ pc = "call"
    /\ pc' = "done"
    /\ ret' = _read_log_file(self, args.file_path, args.max_lines, os)
    /\ UNCHANGED <<os, self, args, pos, errors, current_error>>

NextRead == ReadLogFile

SpecRead == InitRead /\ [][NextRead]_vars

(***************************************************************************)
(* packages/nacos_helper: NacosClient, its login and the token of its     *)
(* requests.  The clock counts seconds; ret is the list of the requests   *)
(* given to urlopen, each with its path and the accessToken among its     *)
(* parameters (None when it has none).                                    *)
(***************************************************************************)

\* the calls of urlopen a behaviour holds at most
MaxSent == 4

\* the last second of the clock
MaxTime == 3

\* the tokenTtl of the payloads of the login, in seconds
TokenTtls == {0, 5, 10, 11, 12, 18000}

\* payload.get("tokenTtl"): None when the payload has none
PayloadTtls == {PyNone} \cup {PyInt(ttl) : ttl \in TokenTtls}

\* payload.get("accessToken") of the payloads that hold one
AccessTokens == {"tokenA", "tokenB"}

\* username and password after __init__: None (not given, not in the
\* environment), empty or given
Credentials == {None, "", "nacos"}

\* the dataclass NacosAuth
NacosAuth(access_token, token_ttl, token_create_time) ==
    [access_token |-> access_token, token_ttl |-> token_ttl,
     token_create_time |-> token_create_time]

\* not v, for an Optional number
IsFalsy(v) == v = PyNone \/ v.n = 0

\* NacosAuth.is_valid at the second now
is_valid(auth, now) ==
    IF ~Truthy(auth.access_token) \/ IsFalsy(auth.token_ttl)
        \/ IsFalsy(auth.token_create_time)
    THEN FALSE
    ELSE (now - auth.token_create_time.n)
            < (IF auth.token_ttl.n - 10 > 0 THEN auth.token_ttl.n - 10 ELSE 0)

\* NacosClient.__init__
NacosClient(username, password) ==
    [username |-> username, password |-> password,
     _auth |-> NacosAuth(None, PyNone, PyNone)]

\* the request _raw_request builds and _send gives to urlopen
Sent(path, accessToken) == [path |-> path, accessToken |-> accessToken]

InitNacos ==
    /\ os = [now |-> 1]
    /\ self \in {NacosClient(username, password) :
                    username \in Credentials, password \in Credentials}
    /\ args = [op |-> "NacosClient._request", path |-> "/nacos/v1/cs/configs"]
    /\ pc = "idle"
    /\ ret = <<>>
    /\ NoLoop

\* _request is called: it logs in when the credentials are configured and
\* the token is not valid
Request ==
    /\ args.op = "NacosClient._request"
    /\ pc = "idle"
    /\ Len(ret) + 2 <= MaxSent
    /\ pc' = IF Truthy(self.username) /\ Truthy(self.password)
                /\ ~is_valid(self._auth, os.now)
             THEN "login" ELSE "params"
    /\ UNCHANGED <<os, self, args, ret, pos, errors, current_error>>

\* _login, the server answers with a token: the client keeps it with the
\* tokenTtl of the payload and the time
LoginGranted ==
    /\ args.op = "NacosClient._request"
    /\ pc = "login"
    /\ \E token \in AccessTokens, ttl \in PayloadTtls :
        self' = [self EXCEPT !._auth = NacosAuth(token, ttl, PyInt(os.now))]
    /\ ret' = Append(ret, Sent("/nacos/v1/auth/login", None))
    /\ pc' = "params"
    /\ UNCHANGED <<os, args, pos, errors, current_error>>

\* _login, the server answers with an error, with a text that is not JSON
\* or with a payload without accessToken: RuntimeError leaves _request
LoginRefused ==
    /\ args.op = "NacosClient._request"
    /\ pc = "login"
    /\ ret' = Append(ret, Sent("/nacos/v1/auth/login", None))
    /\ pc' = "idle"
    /\ UNCHANGED <<os, self, args, pos, errors, current_error>>

\* the rest of _request: the token joins the parameters when it is valid,
\* and the request is sent
Send ==
    /\ args.op = "NacosClient._request"
    /\ pc = "params"
    /\ ret' = Append(ret, Sent(args.path,
                               IF is_valid(self._auth, os.now)
                               THEN self._auth.access_token ELSE None))
    /\ pc' = "idle"
    /\ UNCHANGED <<os, self, args, pos, errors, current_error>>

\* a second passes
Tick ==
    /\ args.op = "NacosClient._request"
    /\ os.now < MaxTime
    /\ os' = [os EXCEPT !.now = os.now + 1]
    /\ UNCHANGED <<self, args, pc, ret, pos, errors, current_error>>

NextNacos == Request \/ LoginGranted \/ LoginRefused \/ Send \/ Tick

SpecNacos == InitNacos /\ [][NextNacos]_vars

\* _convert_path_for_platform on a path
InitConvert ==
    /\ os \in Platforms
    /\ self \in Analyzers
    /\ args \in [op : {"_convert_path_for_platform"}, path : PathInputs]
    /\ pc = "call"
    /\ ret = None
    /\ NoLoop

ConvertPath ==
    /\ args.op = "_convert_path_for_platform"
    /\ pc = "call"
    /\ pc' = "done"
    /\ ret' = _convert_path_for_platform(args.path, os)
    /\ UNCHANGED <<os, self, args, pos, errors, current_error>>

NextConvert == ConvertPath

SpecConvert == InitConvert /\ [][NextConvert]_vars

\* a keyword searched in the lines of a file, by search_logs or by
\* _search_logs of packages/log_analyzer
InitSearch ==
    /\ os = Posix
    /\ self \in Analyzers
    /\ \/ args \in [op : {"search_logs"}, keyword : SearchKeywords,
                     lines : SearchFiles, log_file : {"logs/all.log"}]
       \/ args \in [op : {"_search_logs"}, keyword : SearchKeywords,
                     log_lines : SearchFiles]
    /\ pc = "call"
    /\ ret = None
    /\ NoLoop

SearchLogs ==
    /\ args.op = "search_logs"
    /\ pc = "call"
    /\ pc' = "done"
    /\ ret' = search_logs(args.lines, args.keyword, args.log_file, self.app_package)
    /\ UNCHANGED <<os, self, args, pos, errors, current_error>>

SearchLogLines ==
    /\ args.op = "_search_logs"
    /\ pc = "call"
    /\ pc' = "done"
    /\ ret' = _search_logs(args.log_lines, args.keyword)
    /\ UNCHANGED <<os, self, args, pos, errors, current_error>>

NextSearch == SearchLogs \/ SearchLogLines

SpecSearch == InitSearch /\ [][NextSearch]_vars

\* the environments _get_error_patterns reads
Environs == [ERROR_PATTERNS : {None} \cup PatternTexts, LOG_ANALYZER_DEBUG : {None, "1"}]

\* _get_error_patterns called in an environment
InitPatterns ==
    /\ os \in [name : {"posix"}, drive : {""}, files : {"readable"}, environ : Environs]
    /\ self \in Analyzers
    /\ args \in [op : {"_get_error_patterns"}]
    /\ pc = "call"
    /\ ret = None
    /\ NoLoop

GetErrorPatterns ==
    /\ args.op = "_get_error_patterns"
    /\ pc = "call"
    /\ pc' = "done"
    /\ ret' = _get_error_patterns(os.environ)
    /\ UNCHANGED <<os, self, args, pos, errors, current_error>>

NextPatterns == GetErrorPatterns

SpecPatterns == InitPatterns /\ [][NextPatterns]_vars

\* _extract_exception_info on a line
InitExtract ==
    /\ os = Posix
    /\ self \in Analyzers
    /\ args \in [op : {"_extract_exception_info"}, log_line : ExtractLines \cup {""}]
    /\ pc = "call"
    /\ ret = None
    /\ NoLoop

ExtractExceptionInfo ==
    /\ args.op = "_extract_exception_info"
    /\ pc = "call"
    /\ pc' = "done"
    /\ ret' = _extract_exception_info(args.log_line, self.app_package)
    /\ UNCHANGED <<os, self, args, pos, errors, current_error>>

NextExtract == ExtractExceptionInfo

SpecExtract == InitExtract /\ [][NextExtract]_vars

\* analyze_logs on a file of header lines of every level
InitLevels ==
    /\ os = Posix
    /\ self \in Analyzers
    /\ args \in [op : {"analyze_logs"}, all_log_lines : LevelFiles]
    /\ pc = "call"
    /\ ret = None
    /\ NoLoop

SpecLevels == InitLevels /\ [][NextAnalyze]_vars

\* analyze_logs called twice on an analyzer, with the same arguments and
\* the files as they were; the clock may go on at each call
InitTwice ==
    /\ os \in {[name |-> platform.name, drive |-> platform.drive,
                files |-> platform.files, now |-> now] :
                  platform \in CallPlatforms, now \in 0..MaxClock}
    /\ self \in Constructed(os)
    /\ args \in [op : {"LogAnalyzer.analyze_logs"},
                 log_level : Levels,
                 max_lines : {1000},
                 error_log_path : CallPaths("error"),
                 warn_log_path : {None},
                 all_log_path : {None}]
    /\ pc = "call"
    /\ ret = <<>>
    /\ NoLoop

\* what a call of analyze_logs returns at the second now of the clock
ReportAt(this, call, platform, now) ==
    Stamped(AnalyzeLogsCall(this, call.log_level, call.max_lines, call.error_log_path,
                            call.warn_log_path, call.all_log_path, platform),
            now)

\* the first call: it leaves the analyzer as it was
AnalyzeLogsFirst ==
    /\ args.op = "LogAnalyzer.analyze_logs"
    /\ pc = "call"
    /\ pc' = "called"
    /\ \E tick \in 0..1 : os' = [os EXCEPT !.now = @ + tick]
    /\ ret' = <<ReportAt(self, args, os, os'.now)>>
    /\ UNCHANGED <<self, args, pos, errors, current_error>>

\* the second call
AnalyzeLogsSecond ==
    /\ args.op = "LogAnalyzer.analyze_logs"
    /\ pc = "called"
    /\ pc' = "done"
    /\ \E tick \in 0..1 : os' = [os EXCEPT !.now = @ + tick]
    /\ ret' = Append(ret, ReportAt(self, args, os, os'.now))
    /\ UNCHANGED <<self, args, pos, errors, current_error>>

NextTwice == AnalyzeLogsFirst \/ AnalyzeLogsSecond

SpecTwice == InitTwice /\ [][NextTwice]_vars

\* _extract_key_info on a line
InitKeyInfo ==
    /\ os = Posix
    /\ self \in Analyzers
    /\ args \in [op : {"_extract_key_info"},
                 log_line : Corpus \cup {""},
                 max_length : (1..MaxLength) \cup {150, KeyInfoLength}]
    /\ pc = "call"
    /\ ret = None
    /\ NoLoop

ExtractKeyInfo ==
    /\ args.op = "_extract_key_info"
    /\ pc = "call"
    /\ pc' = "done"
    /\ ret' = _extract_key_info(args.log_line, args.max_length, self.app_package)
    /\ UNCHANGED <<os, self, args, pos, errors, current_error>>

NextKeyInfo == ExtractKeyInfo

SpecKeyInfo == InitKeyInfo /\ [][NextKeyInfo]_vars

\* _filter_stack_trace on a stack text
InitStack ==
    /\ os = Posix
    /\ self \in Analyzers
    /\ args \in [op : {"_filter_stack_trace"}, stack_trace : StackTexts]
    /\ pc = "call"
    /\ ret = None
    /\ NoLoop

FilterStackTrace ==
    /\ args.op = "_filter_stack_trace"
    /\ pc = "call"
    /\ pc' = "done"
    /\ ret' = _filter_stack_trace(args.stack_trace, self.app_package)
    /\ UNCHANGED <<os, self, args, pos, errors, current_error>>

NextStack == FilterStackTrace

SpecStack == InitStack /\ [][NextStack]_vars

\* _analyze_error_logs on the lines of an error log, one step for each
\* pass of "for line in log_lines" and one for the return
InitErrorLogs ==
    /\ os = Posix
    /\ self \in Analyzers
    /\ args \in [op : {"_analyze_error_logs"}, log_lines : ErrorLogs]
    /\ pc = "call"
    /\ ret = None
    /\ pos = 1
    /\ errors = <<>>
    /\ current_error = <<>>

InLoop ==
    /\ args.op = "_analyze_error_logs"
    /\ pc = "call"
    /\ pos <= Len(args.log_lines)

\* if log_entry and log_entry["level"] == "ERROR":
ErrorLine ==
    /\ InLoop
    /\ IsErrorEntry(EntryOf(args.log_lines[pos]))
    /\ errors' = errors \o current_error
    /\ current_error' =
           <<NewError(EntryOf(args.log_lines[pos])[1], self.app_package)>>
    /\ pos' = pos + 1
    /\ UNCHANGED <<os, self, args, pc, ret>>

\* elif current_error:
OtherLine ==
    /\ InLoop
    /\ ~IsErrorEntry(EntryOf(args.log_lines[pos]))
    /\ Len(current_error) > 0
    /\ current_error' =
           <<Appended(current_error[1], args.log_lines[pos], self.app_package)>>
    /\ pos' = pos + 1
    /\ UNCHANGED <<os, self, args, pc, ret, errors>>

\* a variant of PassedLine: a line that is no header opens a record of its
\* own when none is open
PassedLine_Opened ==
    /\ InLoop
    /\ ~IsErrorEntry(EntryOf(args.log_lines[pos]))
    /\ Len(current_error) = 0
    /\ current_error' =
           <<[timestamp |-> None,
              message |-> args.log_lines[pos],
              details |-> _extract_error_details(args.log_lines[pos], self.app_package)]>>
    /\ pos' = pos + 1
    /\ UNCHANGED <<os, self, args, pc, ret, errors>>

\* neither: the line is passed over
PassedLine ==
    /\ InLoop
    /\ ~IsErrorEntry(EntryOf(args.log_lines[pos]))
    /\ Len(current_error) = 0
    /\ pos' = pos + 1
    /\ UNCHANGED <<os, self, args, pc, ret, errors, current_error>>

\* if current_error: errors.append(current_error); return {...}
ReturnErrors ==
    /\ args.op = "_analyze_error_logs"
    /\ pc = "call"
    /\ pos > Len(args.log_lines)
    /\ errors' = errors \o current_error
    /\ ret' = [error_count |-> Len(errors \o current_error),
               errors |-> errors \o current_error]
    /\ pc' = "done"
    /\ UNCHANGED <<os, self, args, pos, current_error>>

NextErrorLogs == ErrorLine \/ OtherLine \/ PassedLine \/ ReturnErrors

SpecErrorLogs == InitErrorLogs /\ [][NextErrorLogs]_vars

Spec == SpecAnalyze

(***************************************************************************)
(* analyze_logs: the cap, the order and the severities of the report        *)
(***************************************************************************)

\* C1: the report analyze_logs returns holds at most 50 defects,
\* total_defects is at least the number returned, and total_defects is the
\* number of defects found before the cap: the lines that are relevant and
\* carry exception information.
C1_CapAndTotal ==
    pc = "done" /\ args.op = "analyze_logs" =>
        /\ Len(ret.defects) <= 50
        /\ ret.total_defects >= Len(ret.defects)
        /\ ret.total_defects =
               Cardinality({i \in 1..Len(args.all_log_lines) :
                               IsDefectLine(args.all_log_lines[i], self.app_package)})

\* more than 50 defects were found and 50 are returned
C1_Capped ==
    /\ pc = "done" /\ args.op = "analyze_logs"
    /\ ret.total_defects > 50
    /\ Len(ret.defects) = 50

\* C2: each defect of the returned list has a severity rank no greater than
\* that of the defect after it, with critical 0, high 1, medium 2 and any
\* other value 3.
C2_SortedBySeverity ==
    pc = "done" /\ args.op = "analyze_logs" =>
        \A k \in 1..(Len(ret.defects) - 1) :
            severity_rank(ret.defects[k].severity)
                <= severity_rank(ret.defects[k + 1].severity)

\* a defect is returned before a less severe one of an earlier line
C2_Reordered ==
    /\ pc = "done" /\ args.op = "analyze_logs"
    /\ \E k \in 1..(Len(ret.defects) - 1) :
           /\ severity_rank(ret.defects[k].severity)
                  < severity_rank(ret.defects[k + 1].severity)
           /\ ret.defects[k].line_number > ret.defects[k + 1].line_number

\* C3: when more than 50 defects are found, no defect left out of the
\* returned list has a severity rank strictly smaller than that of a
\* returned defect: the cap is applied after the sort.
C3_CapAfterSort ==
    pc = "done" /\ args.op = "analyze_logs" /\ ret.total_defects > 50 =>
        \A o \in 1..ret.total_defects :
            \/ \E k \in 1..Len(ret.defects) :
                   ret.defects[k] = DefectsOf(args.all_log_lines, self.app_package)[o]
            \/ \A k \in 1..Len(ret.defects) :
                   severity_rank(DefectsOf(args.all_log_lines, self.app_package)[o].severity)
                       >= severity_rank(ret.defects[k].severity)

\* more than 50 defects were found, and a defect of a later line is
\* returned while a less severe one of an earlier line is left out
C3_LaterKept ==
    /\ pc = "done" /\ args.op = "analyze_logs"
    /\ ret.total_defects > 50
    /\ \E o \in 1..ret.total_defects :
           /\ \A k \in 1..Len(ret.defects) :
                  ret.defects[k] # DefectsOf(args.all_log_lines, self.app_package)[o]
           /\ \E k \in 1..Len(ret.defects) :
                  /\ ret.defects[k].line_number
                         > DefectsOf(args.all_log_lines, self.app_package)[o].line_number
                  /\ severity_rank(ret.defects[k].severity)
                         < severity_rank(
                               DefectsOf(args.all_log_lines, self.app_package)[o].severity)

\* C4: the sort is stable: two returned defects of the same severity rank
\* appear in increasing order of line_number.
C4_StableSort ==
    pc = "done" /\ args.op = "analyze_logs" =>
        \A j, k \in 1..Len(ret.defects) :
            /\ j < k
            /\ severity_rank(ret.defects[j].severity)
                   = severity_rank(ret.defects[k].severity)
            => ret.defects[j].line_number < ret.defects[k].line_number

\* two defects of one rank are returned after a defect of a later line
C4_MovedPair ==
    /\ pc = "done" /\ args.op = "analyze_logs"
    /\ \E i, j, k \in 1..Len(ret.defects) :
           /\ i < j /\ j < k
           /\ severity_rank(ret.defects[j].severity)
                  = severity_rank(ret.defects[k].severity)
           /\ ret.defects[i].line_number > ret.defects[k].line_number

\* C10: every returned defect has severity critical, high or medium, and a
\* defect whose type is an exception type name (its pattern is that name)
\* holding none of the critical or high keywords has severity medium.
C10_ThreeSeverities ==
    pc = "done" /\ args.op = "analyze_logs" =>
        \A k \in 1..Len(ret.defects) :
            /\ ret.defects[k].severity \in {"critical", "high", "medium"}
            /\ /\ ret.defects[k].pattern = ret.defects[k].defect_type
               /\ ~AnyKeyword(ret.defects[k].defect_type, critical_keywords)
               /\ ~AnyKeyword(ret.defects[k].defect_type, high_keywords)
               => ret.defects[k].severity = "medium"

\* a defect of an exception type with no keyword is returned: medium
C10_UnmappedType ==
    /\ pc = "done" /\ args.op = "analyze_logs"
    /\ \E k \in 1..Len(ret.defects) :
           /\ ret.defects[k].pattern = ret.defects[k].defect_type
           /\ ~AnyKeyword(ret.defects[k].defect_type, critical_keywords)
           /\ ~AnyKeyword(ret.defects[k].defect_type, high_keywords)
           /\ ret.defects[k].severity = "medium"

(***************************************************************************)
(* _extract_key_info and _filter_stack_trace: the limits                    *)
(***************************************************************************)

\* C7: for every line and every max_length N > 0 the summary
\* _extract_key_info returns is at most N + 3 long, and when the text before
\* the cut is no longer than N nothing is appended: the summary is that text,
\* stripped.
C7_TruncationLaw ==
    pc = "done" /\ args.op = "_extract_key_info" /\ args.log_line # "" =>
        /\ Len(ret) <= args.max_length + 3
        /\ Len(CleanedKeyInfo(args.log_line, self.app_package)) <= args.max_length
           => ret = Strip(CleanedKeyInfo(args.log_line, self.app_package))

\* the text before the cut is longer than N: the summary is N + 3 long and
\* ends in the marker
C7_Truncated ==
    /\ pc = "done" /\ args.op = "_extract_key_info" /\ args.log_line # ""
    /\ Len(CleanedKeyInfo(args.log_line, self.app_package)) > args.max_length
    /\ Len(ret) = args.max_length + 3
    /\ SubSeq(ret, args.max_length + 1, args.max_length + 3) = "..."

\* C8: for every stack text and every package hint, set or not,
\* _filter_stack_trace returns at most 3 frame lines.
C8_StackFilterCap ==
    pc = "done" /\ args.op = "_filter_stack_trace" =>
        \/ ret = ""
        \/ /\ Len(Split(ret, "\n")) <= 3
           /\ \A k \in 1..Len(Split(ret, "\n")) : StartsWith(Split(ret, "\n")[k], "at ")

\* more than 3 frames pass the filter and 3 are returned
C8_FramesCut ==
    /\ pc = "done" /\ args.op = "_filter_stack_trace"
    /\ Len(filtered_lines(args.stack_trace, self.app_package)) > 3
    /\ Len(Split(ret, "\n")) = 3

(***************************************************************************)
(* _analyze_error_logs: the records                                         *)
(***************************************************************************)

\* C5: _analyze_error_logs yields one record for each ERROR header line, in
\* the order of the lines, and the message of each is the message of its
\* header followed, in order, by the lines that are no header lines between
\* that header and the next header line or the end.
C5_OneRecordPerErrorHeader ==
    pc = "done" /\ args.op = "_analyze_error_logs" =>
        LET lines == args.log_lines
            IsHeader(i) == Len(EntryOf(lines[i])) > 0
            error_headers ==
                SelectSeq([i \in 1..Len(lines) |-> i],
                          LAMBDA i : IsErrorEntry(EntryOf(lines[i])))
            NextHeader(i) == FirstAt(i + 1, Len(lines), IsHeader)
            Message(i) ==
                Join(<<EntryOf(lines[i])[1].message>>
                         \o [j \in 1..(NextHeader(i) - i - 1) |-> lines[i + j]],
                     "\\n")
        IN /\ Len(ret.errors) = Len(error_headers)
           /\ \A k \in 1..Len(error_headers) :
                  ret.errors[k].message = Message(error_headers[k])

\* C6: a header line of a level other than ERROR and WARN closes the open
\* record and opens none: once the loop is past such a line no record is
\* open, and the text of such a line is in no record's message.
C6_OtherLevelClosesRecord ==
    args.op = "_analyze_error_logs" =>
        /\ /\ pos > 1
           /\ Len(EntryOf(args.log_lines[pos - 1])) > 0
           /\ EntryOf(args.log_lines[pos - 1])[1].level \notin {"ERROR", "WARN"}
           => current_error = <<>>
        /\ \A i \in 1..Len(args.log_lines) :
               /\ Len(EntryOf(args.log_lines[i])) > 0
               /\ EntryOf(args.log_lines[i])[1].level \notin {"ERROR", "WARN"}
               => \A k \in 1..Len(errors) :
                      ~Contains(errors[k].message, args.log_lines[i])

\* C9: the application frames of an error record, details.app_stack_trace,
\* computed again after every appended line, never number more than 3.
C9_AppFramesCap ==
    args.op = "_analyze_error_logs" =>
        \A k \in 1..Len(errors \o current_error) :
            Len((errors \o current_error)[k].details.app_stack_trace) <= 3
(***************************************************************************)
(* analyze_logs: the scenarios                                             *)
(***************************************************************************)

\* C11: an ERROR header line whose message is a NullPointerException,
\* followed by any number of stack frame lines, gives exactly one defect, of
\* the header line, of type NullPointerException and severity high; the
\* frame lines give no defect of their own.
C11_OneDefectPerTrace ==
    (pc = "done" /\ args.op = "analyze_logs" /\ args.all_log_lines \in Traces) =>
        /\ ret.total_defects = 1
        /\ Len(ret.defects) = 1
        /\ ret.defects[1].line_number = 1
        /\ ret.defects[1].defect_type = "NullPointerException"
        /\ ret.defects[1].severity = "high"

\* the words one of which every pattern of _extract_exception_info needs
SignatureWords ==
    {"exception", "error", "failed", "denied", "refused", "rejected",
     "timeout", "timed out"}

\* the header lines of level WARN among the lines of the logs
WarnHeaderLines == {WarnLine, WarnTimedOutLine}

\* C12: a WARN header line with no exception or failure signature gives no
\* defect when analyze_logs reads it, and the warning_count of
\* _analyze_warn_logs is the number of lines that are headers of level WARN.
C12_WarnLines ==
    /\ (pc = "done" /\ args.op = "analyze_logs" /\ args.all_log_lines \in WarnLogs) =>
           \A i \in 1..Len(args.all_log_lines) :
               (/\ args.all_log_lines[i] \in WarnHeaderLines
                /\ \A w \in SignatureWords : ~ContainsCI(args.all_log_lines[i], w))
               => /\ \A k \in 1..Len(ret.defects) : ret.defects[k].line_number # i
                  /\ ret.total_defects <= Len(args.all_log_lines) - 1
    /\ (pc = "done" /\ args.op = "_analyze_warn_logs") =>
           /\ ret.warning_count =
                  Cardinality({i \in 1..Len(args.log_lines) :
                                  args.log_lines[i] \in WarnHeaderLines})
           /\ Len(ret.warnings) = ret.warning_count

\* a log of three lines, two of them WARN headers, has been read in warn mode
C12_WarnCounted ==
    /\ pc = "done"
    /\ args.op = "_analyze_warn_logs"
    /\ args.log_lines = <<WarnLine, NpeLine, WarnTimedOutLine>>
    /\ ret.warning_count = 2

(***************************************************************************)
(* search_logs: the count and the cap                                      *)
(***************************************************************************)

\* how many of the lines hold the keyword, letter case ignored
HoldingCI(lines, keyword) ==
    Cardinality({i \in 1..Len(lines) : ContainsCI(lines[i], keyword)})

\* C13: keyword search ignores letter case: for every keyword and every
\* sequence of lines, the number of matches reported is the number of lines
\* that hold the keyword, letter case ignored.
C13_CaseInsensitiveCount ==
    /\ (pc = "done" /\ args.op = "search_logs") =>
           ret.total_matches = HoldingCI(args.lines, args.keyword)
    /\ (pc = "done" /\ args.op = "_search_logs") =>
           ret.match_count = HoldingCI(args.log_lines, args.keyword)

\* C14: the report of search_logs holds at most 30 matches, total_matches is
\* at least the number returned, and the matches returned are the first 30
\* hits in the order of their lines.
C14_SearchCap ==
    (pc = "done" /\ args.op = "search_logs") =>
        LET hits == MatchesOf(args.lines, args.keyword, args.log_file, self.app_package) IN
        /\ Len(ret.matches) <= 30
        /\ ret.total_matches >= Len(ret.matches)
        /\ Len(ret.matches) = IF Len(hits) < 30 THEN Len(hits) ELSE 30
        /\ \A k \in 1..Len(ret.matches) : ret.matches[k] = hits[k]
        /\ \A k \in 1..(Len(ret.matches) - 1) :
               ret.matches[k].line_number < ret.matches[k + 1].line_number

\* a search with 31 hits has returned 30 matches
C14_HitsCut ==
    /\ pc = "done"
    /\ args.op = "search_logs"
    /\ ret.total_matches = 31
    /\ Len(ret.matches) = 30

(***************************************************************************)
(* The paths                                                               *)
(***************************************************************************)

\* the names of a path: what lies between its separators, nothing left out
\* but the empty pieces
NamesOf(path, sep) == SelectSeq(Split(path, sep), LAMBDA name : name # "")

RECURSIVE FirstNonEmpty(_)
FirstNonEmpty(values) ==
    IF Len(values) = 1 \/ Truthy(values[1]) THEN values[1]
    ELSE FirstNonEmpty(Tail(values))

\* the file name of a level
LevelFile(level) ==
    CASE level = "error" -> "log_error.log"
      [] level = "warn" -> "log_warn.log"
      [] level = "all" -> "all.log"

\* what the call and the constructor were given for a level
CallOverride(level) ==
    CASE level = "error" -> args.error_log_path
      [] level = "warn" -> args.warn_log_path
      [] level = "all" -> args.all_log_path

InstanceOverride(level) ==
    CASE level = "error" -> self.error_log_path
      [] level = "warn" -> self.warn_log_path
      [] level = "all" -> self.all_log_path

\* C15: for each level the file analyze_logs reads is the first non-empty of
\* the path the call gives for the level, the path the analyzer captured for
\* the level at construction, and log directory/application name/file name
\* of the level; what is given for another level has no part in it.
C15_FirstNonEmptyPath ==
    (pc = "done" /\ args.op = "LogAnalyzer.analyze_logs") =>
        ret.log_files_analyzed =
            <<FirstNonEmpty(<<CallOverride(args.log_level),
                              InstanceOverride(args.log_level),
                              self.log_path \o "/" \o self.app_name \o "/"
                                  \o LevelFile(args.log_level)>>)>>

\* C18: when the log file chosen is not there, or is there and cannot be
\* read, analyze_logs returns a report with total_defects 0, no defects and
\* a non-empty list of warnings.
C18_NoFileWarned ==
    (pc = "done" /\ args.op = "LogAnalyzer.analyze_logs"
        /\ os.files \in {"missing", "unreadable"}) =>
        /\ ret.total_defects = 0
        /\ ret.defects = <<>>
        /\ ret.warnings # None
        /\ Len(ret.warnings) > 0

\* C17: no exception leaves analyze_logs or analyze: a failure in a stage
\* of the call is turned into a result that carries an error message.
C17_NoExceptionLeaves ==
    /\ (pc = "done" /\ args.op \in {"LogAnalyzer.analyze_logs", "LogAnalyzer.analyze"}) =>
           "raised" \notin DOMAIN ret
    /\ (pc = "done" /\ args.op = "LogAnalyzer.analyze_logs"
           /\ os.files = "unreadable" /\ ret.log_files_analyzed # <<"">>) =>
           "error" \in DOMAIN ret

\* the names a record of the override list gives its values under
RecordNames == {"pattern", "description", "severity"}

\* item is a record that names a pattern and a description
HasRecordNames(item) ==
    item.t = "dict" /\ HasName(item, "pattern") /\ HasName(item, "description")

\* item is a record of the shape the docstring gives: a pattern, a
\* description and, where it is there, a severity, each a str
IsOverrideRecord(item) ==
    /\ HasRecordNames(item)
    /\ \A k \in 1..Len(item.members) :
           item.members[k][1] \in RecordNames => item.members[k][2].t = "str"

\* ERROR_PATTERNS is set to the text of a list
IsListText(text) ==
    Truthy(text) /\ Loaded(text).ok /\ Loaded(text).value.t = "list"

\* ERROR_PATTERNS is a well-formed override catalogue
WellFormed(text) ==
    /\ IsListText(text)
    /\ \A k \in 1..Len(Loaded(text).value.items) :
           IsOverrideRecord(Loaded(text).value.items[k])

\* the entry the override list gives the key of its k-th record: the
\* description and the severity of the last record with that key
OverrideEntry(overrides, k) ==
    Let(LastAt(1, Len(overrides),
               LAMBDA j : GetItem(overrides[j], "pattern")
                              = GetItem(overrides[k], "pattern")),
        LAMBDA last :
            <<GetItem(overrides[k], "pattern"),
              GetItem(overrides[last], "description"),
              IF HasName(overrides[last], "severity")
              THEN GetItem(overrides[last], "severity") ELSE PyStr("medium")>>)

\* the entries of a catalogue
EntriesOf(patterns) == {patterns[k] : k \in 1..Len(patterns)}

\* the regex keys of a catalogue
KeysOf(patterns) == {patterns[k][1] : k \in 1..Len(patterns)}

\* C19: with a well-formed override catalogue in ERROR_PATTERNS,
\* _get_error_patterns returns a catalogue in which every regex key occurs
\* once, whose keys are the keys of the defaults and the keys of the
\* overrides, in which a key of the overrides carries the description and
\* the severity of the override ("medium" where the override names none),
\* and in which the other defaults are what they were.
C19_MergedCatalogue ==
    (pc = "done" /\ args.op = "_get_error_patterns"
        /\ WellFormed(os.environ.ERROR_PATTERNS)) =>
        Let(Loaded(os.environ.ERROR_PATTERNS).value.items,
            LAMBDA overrides :
                /\ \A i \in 1..Len(ret.patterns) : \A j \in 1..Len(ret.patterns) :
                       ret.patterns[i][1] = ret.patterns[j][1] => i = j
                /\ KeysOf(ret.patterns) =
                       KeysOf(default_patterns)
                           \cup {GetItem(overrides[k], "pattern") : k \in 1..Len(overrides)}
                /\ \A k \in 1..Len(overrides) :
                       OverrideEntry(overrides, k) \in EntriesOf(ret.patterns)
                /\ \A k \in 1..Len(default_patterns) :
                       (\A j \in 1..Len(overrides) :
                            GetItem(overrides[j], "pattern") # default_patterns[k][1])
                           => default_patterns[k] \in EntriesOf(ret.patterns))

\* C19 happens: a well-formed catalogue of two records, one with the key
\* of a default and no severity, one with a key of its own, has been merged
C19_Merged ==
    /\ pc = "done" /\ args.op = "_get_error_patterns"
    /\ WellFormed(os.environ.ERROR_PATTERNS)
    /\ Len(ret.patterns) = Len(default_patterns) + 1
    /\ ret.patterns[1] =
           <<PyStr("NullPointerException"), PyStr("NPE again"), PyStr("medium")>>
    /\ PyStr("MyAppException") \in KeysOf(ret.patterns)

\* ERROR_PATTERNS is set and is malformed: it is not parseable, or it is
\* not a list of pattern/description records
Malformed(text) ==
    /\ Truthy(text)
    /\ \/ ~IsListText(text)
       \/ \E k \in 1..Len(Loaded(text).value.items) :
              ~HasRecordNames(Loaded(text).value.items[k])

\* testing or reading the item as a record raises: the item has no test
\* for a name, or it has both names and is no dict, or its pattern cannot
\* be a key
RaisesOn(item) ==
    \/ item.t \in {"int", "bool", "NoneType"}
    \/ item.t \in {"str", "list"}
           /\ HasName(item, "pattern") /\ HasName(item, "description")
    \/ HasRecordNames(item) /\ GetItem(item, "pattern").t \in {"list", "dict"}

\* the try of _get_error_patterns raises on the text: json.loads does, or
\* the value cannot be gone through, or one of its items raises
RaisesIn(text) ==
    \/ ~Loaded(text).ok
    \/ Loaded(text).value.t \in {"int", "bool", "NoneType"}
    \/ \E k \in 1..Len(IterOf(Loaded(text).value).value) :
           RaisesOn(IterOf(Loaded(text).value).value[k])

\* C20 as stated: with a malformed override catalogue in ERROR_PATTERNS,
\* _get_error_patterns returns exactly the default catalogue.
C20_MalformedGivesDefaults ==
    (pc = "done" /\ args.op = "_get_error_patterns"
        /\ Malformed(os.environ.ERROR_PATTERNS)) =>
        ret.patterns = default_patterns

\* C20: _get_error_patterns raises nothing.  Where the try raises on the
\* text of ERROR_PATTERNS, it returns exactly the default catalogue, in
\* content and order, and prints only when LOG_ANALYZER_DEBUG is set; so it
\* does where the text is malformed and none of its items names a pattern
\* and a description.  Where the try does not raise, the items of a list
\* that lack a name are passed over and the others are merged.
C20_RaisingGivesDefaults ==
    (pc = "done" /\ args.op = "_get_error_patterns") =>
        Let(os.environ.ERROR_PATTERNS,
            LAMBDA text :
                /\ DOMAIN ret = {"patterns", "printed"}
                /\ (ret.printed # <<>>) =
                       (Truthy(text) /\ RaisesIn(text)
                           /\ Truthy(os.environ.LOG_ANALYZER_DEBUG))
                /\ (Truthy(text) /\ RaisesIn(text)) => ret.patterns = default_patterns
                /\ (Malformed(text) /\ IsListText(text)
                       /\ \A k \in 1..Len(Loaded(text).value.items) :
                              ~HasRecordNames(Loaded(text).value.items[k]))
                       => ret.patterns = default_patterns
                /\ (Malformed(text) /\ ~IsListText(text)) => ret.patterns = default_patterns
                /\ (IsListText(text) /\ ~RaisesIn(text)) =>
                       \A k \in 1..Len(Loaded(text).value.items) :
                           HasRecordNames(Loaded(text).value.items[k]) =>
                               \E key \in KeysOf(ret.patterns) :
                                   SameKey(key, GetItem(Loaded(text).value.items[k],
                                                        "pattern")))

\* C20 happens: a list of a record and a number has raised in the try, and
\* the defaults were returned without the record
C20_FellBack ==
    /\ pc = "done" /\ args.op = "_get_error_patterns"
    /\ IsListText(os.environ.ERROR_PATTERNS)
    /\ RaisesIn(os.environ.ERROR_PATTERNS)
    /\ \E k \in 1..Len(Loaded(os.environ.ERROR_PATTERNS).value.items) :
           /\ HasRecordNames(Loaded(os.environ.ERROR_PATTERNS).value.items[k])
           /\ GetItem(Loaded(os.environ.ERROR_PATTERNS).value.items[k], "pattern")
                  = PyStr("MyAppException")
    /\ ret.patterns = default_patterns
    /\ ret.printed # <<>>

\* C21: every exception signature _extract_exception_info returns, from
\* the exception pattern and from each entry of error_patterns, has an
\* exception message of at most 100 characters.
C21_MessageCap ==
    (pc = "done" /\ args.op = "_extract_exception_info" /\ Len(ret) > 0) =>
        Len(ret[1].exception_message) <= MaxMessage

\* the line is a header line of a level below ERROR and WARN
IsBelowWarn(line) ==
    \E level \in {"INFO", "DEBUG"} : StartsWith(line, HeaderOf(level))

\* C23: no defect of the report of analyze_logs comes from a header line
\* of a level below ERROR and WARN (INFO, DEBUG), whatever its message.
C23_OnlyErrorAndWarn ==
    (pc = "done" /\ args.op = "analyze_logs") =>
        \A k \in 1..Len(ret.defects) :
            ~IsBelowWarn(args.all_log_lines[ret.defects[k].line_number])

\* the patterns of default_patterns, in its order
catalogue_patterns ==
    << <<Lit("NullPointerException")>>,
       <<Lit("IndexOutOfBoundsException")>>,
       <<Alt(<< <<Lit("SQLException")>>, <<Lit("DatabaseException")>> >>)>>,
       <<Alt(<< <<Lit("Connection"), Many("."), Lit("refused")>>,
                <<Lit("Connection"), Many("."), Lit("timeout")>> >>)>>,
       <<Lit("OutOfMemoryError")>>,
       <<Lit("StackOverflowError")>>,
       <<Lit("ClassNotFoundException")>>,
       <<Lit("MethodNotFoundException")>>,
       <<Alt(<< <<Lit("TimeoutException")>>, <<Lit("ReadTimeout")>>,
                <<Lit("ConnectTimeout")>> >>)>>,
       <<Lit("FileNotFoundException")>>,
       <<Alt(<< <<Lit("Permission denied")>>, <<Lit("Access denied")>> >>)>> >>

\* the first entry of the catalogue that matches the line,
\* Len(default_patterns) + 1 when none does
FirstCatalogueEntry(log_line) ==
    FirstAt(1, Len(default_patterns),
            LAMBDA k : Len(ReSearch(catalogue_patterns[k], log_line, TRUE)) > 0)

\* C24: a line that an entry of the catalogue matches is reported with the
\* description and the severity of the first such entry; the exception
\* pattern and the phrases are used only for the other lines.
C24_CatalogueFirst ==
    (pc = "done" /\ args.op = "_extract_exception_info" /\ args.log_line # "") =>
        Let(FirstCatalogueEntry(args.log_line),
            LAMBDA first :
                first <= Len(default_patterns) =>
                    /\ Len(ret) > 0
                    /\ ret[1].exception_type = default_patterns[first][2].s
                    /\ ret[1].severity = default_patterns[first][3].s)

ReturnedLines(text) == IF text = "" THEN <<>> ELSE Split(text, "\n")

\* the frame begins with a package of the blocklist
IsFrameworkFrame(frame) ==
    \E p \in 1..Len(framework_packages) :
        StartsWith(frame, "at " \o framework_packages[p])

\* the positions of the frames of the lines that the filter is to keep: a
\* frame is a line that, stripped, begins with "at "
Surviving(lines, app_package) ==
    SelectSeq([i \in 1..Len(lines) |-> i],
              LAMBDA i :
                  /\ StartsWith(Strip(lines[i]), "at ")
                  /\ IF Truthy(app_package)
                     THEN Contains(lines[i], app_package)
                     ELSE ~IsFrameworkFrame(Strip(lines[i])))

\* C25: _filter_stack_trace returns the first 3 of the frames it keeps, in
\* their order, each as it is in the input but for the whitespace around
\* it; with a package hint it keeps the frames that hold the hint, and
\* without one the frames that begin with no package of the blocklist.
C25_FramesKept ==
    (pc = "done" /\ args.op = "_filter_stack_trace") =>
        Let(Split(args.stack_trace, "\n"),
            LAMBDA lines :
                Let(Surviving(lines, self.app_package),
                    LAMBDA surviving :
                        /\ Len(ReturnedLines(ret)) = Min(MaxFrames, Len(surviving))
                        /\ \A k \in 1..Len(ReturnedLines(ret)) :
                               /\ ReturnedLines(ret)[k] = Strip(lines[surviving[k]])
                               /\ Contains(args.stack_trace, ReturnedLines(ret)[k])))

\* C25 happens: with a package hint, a frame that the blocklist would keep
\* has been dropped between two frames that are returned
C25_HintFiltered ==
    /\ pc = "done" /\ args.op = "_filter_stack_trace"
    /\ Truthy(self.app_package)
    /\ args.stack_trace = AppFrameLine \o OtherFrameLine \o JdkFrameLine \o AppFrameLine
    /\ Len(ReturnedLines(ret)) = 2

\* C26: for every line that holds a character that is no whitespace and
\* every max_length > 0, _extract_key_info returns a string that is not
\* empty, also for a line that begins with a stack frame none of whose
\* frames the stack filter keeps.
C26_KeyInfoNotEmpty ==
    (pc = "done" /\ args.op = "_extract_key_info"
        /\ Strip(args.log_line) # "" /\ args.max_length > 0) =>
        ret # ""

\* C27: in the loop of _analyze_error_logs, a line that is no header line
\* and comes while no record is open is passed over: the step opens no
\* record and leaves the records already in errors as they are, so that
\* the line is in no record.
C27_OrphanLineDiscarded ==
    [][(/\ InLoop
        /\ Len(EntryOf(args.log_lines[pos])) = 0
        /\ current_error = <<>>)
       => (/\ current_error' = <<>>
           /\ errors' = errors
           /\ pos' = pos + 1)]_vars

\* C27 happens: the loop is past a stack frame that came before any
\* header line, and a header line of level ERROR follows it
C27_OrphanPassed ==
    /\ args.op = "_analyze_error_logs" /\ pc = "call"
    /\ pos = 2 /\ Len(args.log_lines) >= 2
    /\ args.log_lines[1] = AppFrameLine
    /\ args.log_lines[2] = NpeLine
    /\ current_error = <<>> /\ errors = <<>>

\* C28: the path analyze_logs makes up for a level when neither the call
\* nor the analyzer names one holds only the separator of the platform: no
\* "/" on a platform with drive letters, no "\" on the others.
C28_NativeSeparators ==
    (pc = "done" /\ args.op = "LogAnalyzer.analyze_logs"
        /\ ~Truthy(CallOverride(args.log_level))
        /\ InstanceOverride(args.log_level) = None) =>
        /\ ret.log_files_analyzed = <<_get_default_log_path(self, args.log_level)>>
        /\ IF os.name = "nt"
           THEN ~Contains(ret.log_files_analyzed[1], "/")
           ELSE ~Contains(ret.log_files_analyzed[1], "\\")

\* the last count lines of lines, all of them when there are fewer
LastOf(lines, count) ==
    [index \in 1..(IF count < Len(lines) THEN count ELSE Len(lines)) |->
        lines[index + (IF count < Len(lines) THEN Len(lines) - count ELSE 0)]]

\* C29: _read_log_file returns at most max_lines lines for max_lines >= 0:
\* the last max_lines lines of a file that is read, in their order, none for
\* max_lines = 0, and no line when the path does not exist.
C29_AtMostMaxLines ==
    (pc = "done" /\ args.op = "LogAnalyzer._read_log_file") =>
        /\ Len(ret) <= args.max_lines
        /\ os.files = "readable" => ret = LastOf(os.content, args.max_lines)
        /\ os.files = "missing" => ret = <<>>

\* the token of a login is within its lifetime: fewer seconds than its
\* tokenTtl have passed since the login
WithinLifetime(auth, now) ==
    /\ Truthy(auth.access_token)
    /\ auth.token_ttl # PyNone
    /\ now - auth.token_create_time.n < auth.token_ttl.n

\* C30: with username and password configured, a request _request sends
\* after a login has succeeded carries the accessToken of that login, and
\* _request does not log in again while the token is within its lifetime,
\* whatever tokenTtl the server returned (none, or 10 seconds or less).
C30_TokenCarried ==
    [][/\ (pc = "params" /\ pc' = "idle" /\ Truthy(self.username)
             /\ Truthy(self.password) /\ Truthy(self._auth.access_token)) =>
            ret'[Len(ret')].accessToken = self._auth.access_token
       /\ (pc = "idle" /\ pc' = "login") =>
            ~WithinLifetime(self._auth, os.now)]_vars

====
